---- MODULE Spec2Model ----
(***************************************************************************)
(* A model of src/dual_brain_ai.py: the per-agent conversation pipeline    *)
(* (BrainAI.process_input), the triadic resonance state, the background    *)
(* trainer and the Ollama HTTP helper (query_ollama).                      *)
(*                                                                         *)
(* Text is modelled as a sequence of tokens (a message, a reply); the      *)
(* substring test `x in s` is the contiguous-subsequence test Contains.    *)
(* Floats in [0,1] are fixed-point integers in 0..Scale (1.0 = Scale),     *)
(* products rounded down.                                                  *)
(***************************************************************************)
EXTENDS Integers, Sequences, FiniteSets, TLC

\* ------------------------------------------------------------------ bounds

\* Calls of process_input made from outside (the interface), per behaviour.
MaxCalls == 2

\* Calls of process_input in a session that fills the recent-reply window.
MaxWindowCalls == 8

\* Calls of process_input in a session that drives the resonance up, and how
\* many of them, the first ones, may carry a message that opens the keyword gate.
MaxGateCalls == 5

MaxOpenGateCalls == 1

\* Depth of the foreground call stack (a delegated call nests one frame).
MaxDepth == 2

\* Calls of process_input before learning can be switched on (enough of them,
\* with input resonance 1.0, bring fast within one nudge of 1.0), and calls
\* made once it can.
MaxWarmCalls == 14

MaxTrainedCalls == 1

\* Calls in a session of commands.
MaxCommandCalls == 3

\* Rows in the tables of a database, all tables together.
MaxRows == 2

\* Words in a text that is scored.
MaxWords == 3

\* Calls of process_input in a session on the reply sources.
MaxSourceCalls == 3

\* Calls of process_input in a session with the background threads.
MaxBackgroundCalls == 3

\* Summaries stored for one agent.
MaxSummaries == 1

\* Calls of process_input in a session with sync_brains, and the rows the
\* two memory tables may hold together before a sync.
MaxSyncCalls == 2

MaxSyncRows == 4

\* Calls of process_input while the trainer runs.
MaxFloorCalls == 2

\* Calls of process_input in a session of delegations.
MaxDelegationCalls == 2

\* Watcher threads created for one agent.
MaxWatchers == 2

\* ------------------------------------------------------- program constants

\* self.max_recent_replies
MaxRecentReplies == 6

\* for _ in range(3): the reselections after a repeated reply
ReselectLimit == 3

\* self.context_memory keeps the last 10 exchanges
MaxContextMemory == 10

\* ------------------------------------------------------------ text helpers

Agents == {"Elaine", "Carrie"}

Other(a) == IF a = "Elaine" THEN "Carrie" ELSE "Elaine"

\* str.lower() on one token: the catalogue's upper-case tokens and their
\* lower-case forms; every other token is lower-case already.
Lower(t) ==
  CASE t = "HI" -> "hi"
    [] t = "Delegate" -> "delegate"
    [] t = "Carrie" -> "carrie"
    [] t = "Elaine" -> "elaine"
    [] t = "URGENT" -> "urgent"
    [] OTHER -> t

LowerMsg(m) == [i \in DOMAIN m |-> Lower(m[i])]

\* `sub in s` on token sequences (the empty sequence is in every sequence).
Contains(s, sub) ==
  \E i \in 1..(Len(s) - Len(sub) + 1) : SubSeq(s, i, i + Len(sub) - 1) = sub

HasTok(s, t) == \E i \in DOMAIN s : s[i] = t

FirstIdx(s, t) == CHOOSE i \in DOMAIN s : s[i] = t /\ \A j \in 1..(i - 1) : s[j] # t

LastIdx(s, t) == CHOOSE i \in DOMAIN s : s[i] = t /\ \A j \in (i + 1)..Len(s) : s[j] # t

\* s.split(t, 1): the part before and the part after the first t.
Before(s, t) == SubSeq(s, 1, FirstIdx(s, t) - 1)

After(s, t) == SubSeq(s, FirstIdx(s, t) + 1, Len(s))

\* s.split(t)[-1]: the part after the last t, the whole of s when t is not in s.
AfterLast(s, t) == IF HasTok(s, t) THEN SubSeq(s, LastIdx(s, t) + 1, Len(s)) ELSE s

\* s.split(sub)[-1] for a multi-token separator.
AfterLastSub(s, sub) ==
  IF Contains(s, sub)
  THEN LET i == CHOOSE k \in 1..(Len(s) - Len(sub) + 1) :
                  /\ SubSeq(s, k, k + Len(sub) - 1) = sub
                  /\ \A j \in (k + 1)..(Len(s) - Len(sub) + 1) :
                       SubSeq(s, j, j + Len(sub) - 1) # sub
       IN SubSeq(s, i + Len(sub), Len(s))
  ELSE s

\* The messages the interface sends, one or more per path of process_input.
Messages ==
  { <<"team">>,
    <<"learn:", "hi", "=>", "yo">>,
    <<"learn:", "hi">>,
    <<"define", "foo", ":", "bar">>,
    <<"define", "foo">>,
    <<"HI", "there">>,
    <<"hello">>,
    <<"foo", "hello">>,
    <<"delegate", "carrie", "hello">>,
    <<"fuzzy", "hello">>,
    <<"how", "do", "i", "foo">> }

\* A plain message, sent again and again to fill the recent-reply window.
WindowMessages == { <<"hello">> }

\* An important message (three importance keywords, no creative keyword).
ImportantMessages == { <<"urgent", "project", "stl">> }

\* A message that opens the keyword gate (four creative keywords).
OpenGateMessages == { <<"creative", "art", "design", "imagine">> }

\* ---------------------------------------------------------- fixed-point

Scale == 4 * 1000

Half == Scale \div 2

Clamp(x) == IF x < 0 THEN 0 ELSE IF x > Scale THEN Scale ELSE x

\* ------------------------------------------------- classifiers (pure)

\* The words of interest a token contains as substrings: a one-word token is
\* itself; a canned sentence carried as one token contains the keywords
\* listed here.
Words(t) ==
  CASE t = "What do you think about expanding this into a project?" -> {"project"}
    [] t = "Would you like to explore this idea further?" -> {"idea"}
    [] t = "That sparks an interesting idea" -> {"idea"}
    [] t = "For 3D modeling ... I can generate STL files for 3D printing." ->
         {"3d", "model", "stl", "printing"}
    [] t = "For 3D art, I'm thinking about form, composition, lighting, and emotional impact!" ->
         {"3d", "art"}
    [] t = "helpful" -> {"helpful", "help"}
    [] OTHER -> {Lower(t)}

\* `kw in text.lower()` for a keyword kw.
HasWord(text, kw) == \E i \in DOMAIN text : kw \in Words(text[i])

ImportanceKeywords ==
  {"important", "critical", "urgent", "project", "create", "design", "help",
   "stl", "sprite", "background"}

Min(a, b) == IF a < b THEN a ELSE b

\* Mutant: the score starts at 0.
CalculateImportanceFromZero(text) ==
  Min(2 * Cardinality({kw \in ImportanceKeywords : HasWord(text, kw)}), 10)

\* Mutant: the score without min(score, 10).
CalculateImportanceUncapped(text) ==
  5 + 2 * Cardinality({kw \in ImportanceKeywords : HasWord(text, kw)})

\* BrainAI._calculate_importance
CalculateImportance(text) ==
  Min(5 + 2 * Cardinality({kw \in ImportanceKeywords : HasWord(text, kw)}), 10)

CreativeKeywords == {"creative", "art", "design", "imagine", "inspire", "vision", "idea"}

\* BrainAI._gate_logic: score > len(creative_keywords) / 2, i.e. 2 * score > 7.
GateLogic(message) ==
  LET score == Cardinality({kw \in CreativeKeywords : HasWord(message, kw)})
  IN IF 2 * score > Cardinality(CreativeKeywords) THEN "creative" ELSE "analytical"

AnyWord(text, ws) == \E w \in ws : HasWord(text, w)

\* BrainAI._extract_context: the tags in the order the code appends them.
ExtractContext(message) ==
  (IF AnyWord(message, {"3d", "model", "blender", "freecad", "stl", "cad", "printing"})
     THEN <<"3D_MODELING">> ELSE <<>>)
  \o (IF AnyWord(message, {"game", "godot", "unity", "unreal", "sprite", "background"})
     THEN <<"GAME_DEVELOPMENT">> ELSE <<>>)
  \o (IF AnyWord(message, {"music", "audio", "sound", "lmms"})
     THEN <<"AUDIO_PRODUCTION">> ELSE <<>>)
  \o (IF AnyWord(message, {"code", "program", "script", "python"})
     THEN <<"PROGRAMMING">> ELSE <<>>)
  \o (IF AnyWord(message, {"svg", "inkscape", "cricut"})
     THEN <<"VECTOR_DESIGN">> ELSE <<>>)

\* BrainAI._get_context_response: one sentence per tag that has one; of the
\* four tags with a sentence the catalogue reaches 3D_MODELING.
GetContextResponse(message, brain_type) ==
  IF HasTok(ExtractContext(message), "3D_MODELING")
  THEN IF brain_type = "analytical"
       THEN <<"For 3D modeling ... I can generate STL files for 3D printing.">>
       ELSE <<"For 3D art, I'm thinking about form, composition, lighting, and emotional impact!">>
  ELSE <<>>

\* ------------------------------------------------- TriadicConsciousness

\* fast * 0.7 + input_resonance * 0.3
FastUpdate(f, r) == (f * 7 + r * 3) \div 10

\* medium * 0.9 + fast * 0.1
MediumUpdate(m, f) == (m * 9 + f) \div 10

\* slow * 0.95 + medium * 0.05
SlowUpdate(s, m) == (s * 95 + m * 5) \div 100

\* get_overall_resonance is the cube root of fast * medium * slow; the model
\* carries its cube, in units of Scale * Scale (1.0 = Scale * Scale).
OverallCubed(t) == ((t.fast * t.medium) \div Scale) * t.slow

\* TriadicConsciousness.update_harmony, run without interference.
UpdateHarmony(t, r) ==
  LET f == FastUpdate(t.fast, r)
      m == MediumUpdate(t.medium, f)
      s == SlowUpdate(t.slow, m)
  IN [fast |-> f, medium |-> m, slow |-> s]

\* 0.65 ** 3 = 0.274625 and 0.35 ** 3 = 0.042875, in units of Scale * Scale.
CreativeCube == 274625 * (Scale \div 1000) * (Scale \div 1000)

AnalyticalCube == 42875 * (Scale \div 1000) * (Scale \div 1000)

\* Mutant: the keyword gate alone, the resonance override forgotten.
SelectModeGateOnly(message, overall3) == GateLogic(message)

\* process_input, lines 1107-1113: the keyword gate, overridden by resonance.
SelectMode(message, overall3) ==
  IF overall3 > CreativeCube THEN "creative"
  ELSE IF overall3 < AnalyticalCube THEN "analytical"
  ELSE GateLogic(message)

\* min(1.0, importance / 10.0)
InputResonance(message) == Min(Scale, (CalculateImportance(message) * Scale) \div 10)

VARIABLES
  online,               \* agents launched (MainControlInterface.elaine / .carrie)
  use_ollama,           \* BrainAI.use_ollama
  memory_db,            \* table memory_<agent>
  conversation_db,      \* table conversation_<agent>
  memory,               \* BrainAI.memory, the in-process mirror
  conversation_history, \* BrainAI.conversation_history, the in-process mirror
  context_memory,       \* BrainAI.context_memory
  recent_replies,       \* BrainAI.recent_replies
  custom_learned,       \* BrainAI.custom_learned (ordered trigger -> reply)
  definitions,          \* BrainAI.definitions (ordered term -> definition)
  triadic,              \* BrainAI.triadic: fast / medium / slow
  last_resonance,       \* BrainAI.last_resonance (as the cube, see OverallCubed)
  stack,                \* the foreground thread's frames of process_input
  clock,                \* datetime.now(), one tick per call
  calls,                \* calls made from outside so far
  recorded,             \* history: every reply appended to recent_replies
  ollama,               \* the call of query_ollama in progress, or the last one
  training_thread,      \* BrainAI._training_thread: 0 for None, else an index of threads
  training_stop_event,  \* BrainAI._training_stop_event: is the event set
  training_lock,        \* BrainAI._training_lock: 0 when free, else the holder
  training_log,         \* BrainAI.training_log
  threads,              \* the Thread objects created by start_periodic_training
  callers,              \* the threads that call start / stop_periodic_training
  triad,                \* the call of run_triad_agents in progress, or the last one
  memory_meta,          \* table memory_meta_<agent>: the stored summaries
  core,                 \* the last call made straight to a function, and what it returned
  auto,                 \* MainControlInterface.conversation_active and the conversation_loop thread
  learner,              \* the do_learning thread of BrainInterface.search_and_learn
  watch                 \* BrainAI.watch_enabled / watched_path / watch_thread and the watcher threads

pipeVars ==
  << online, use_ollama, memory_db, conversation_db, memory, conversation_history,
     context_memory, recent_replies, custom_learned, definitions, triadic,
     last_resonance, stack, clock, calls, recorded >>

trainVars ==
  << training_thread, training_stop_event, training_lock, training_log, threads, callers >>

\* The variables of the other entry points.
otherVars == << auto, learner, watch >>

sideVars == << triad, memory_meta, core, otherVars >>

\* The variables no step of process_input touches.

backgroundVars == << ollama, trainVars, sideVars >>

vars == << pipeVars, backgroundVars >>

\* ------------------------------------------------------- reply text

Tag(a) == IF a = "Elaine" THEN "[Elaine]:" ELSE "[Carrie]:"

\* msg_lower in ["team status", "who's working", "show team", "team"]
TeamPhrases ==
  { <<"team", "status">>, <<"who's", "working">>, <<"show", "team">>, <<"team">> }

\* BrainAI.get_team_status with no active developer tracked.
GetTeamStatus == <<"No active developers detected.">>

\* BrainAI.search_web: what the search may come back with.
WebResults == { <<"No results found.">>, <<"Web search failed">> }

\* query_ollama as process_input sees it: a generated text or an error string.
OllamaReplies ==
  { <<"(a text generated by the model)">>,
    <<"Ollama error: Unable to connect. Is the Ollama server running?">> }

\* Two of the 15 analytical_phrases and two of the 15 creative_phrases.
AnalyticalPhrases == {"Analyzing the data suggests", "From a logical perspective"}

CreativePhrases == {"That sparks an interesting idea", "I'm visualizing possibilities"}

\* Two of the 29 suggestions of process_input.
Suggestions ==
  { "Would you like to explore this idea further?",
    "What do you think about expanding this into a project?" }

\* "\n(light bulb) ", the marker that precedes the suggestion.
SuggestionMarker == "\n(idea) "

Range(s) == {s[i] : i \in DOMAIN s}

\* s[-n:]
LastN(s, n) == IF Len(s) <= n THEN s ELSE SubSeq(s, Len(s) - n + 1, Len(s))

\* BrainAI._memory_hint: nothing, or one of the important entries among the
\* last 10 of the mirror (random.random() < 0.4, random.choice).
MemoryHints(a) ==
  { <<>> } \cup
  { <<"(I recall:">> \o m.input \o <<")">> :
      m \in {e \in Range(LastN(memory[a], 10)) : e.importance >= 7} }

\* BrainAI._generate_analytical_response
GenerateAnalytical(a, message, from_brain) ==
  { IF from_brain = "Carrie"
    THEN <<Tag(a), "Interesting creative angle, Carrie.", ph>> \o message
           \o GetContextResponse(message, "analytical") \o h
           \o <<"Let me break this down systematically...">>
    ELSE <<Tag(a), ph, "regarding">> \o message
           \o GetContextResponse(message, "analytical") \o h
           \o <<"I'll process this through logical frameworks and provide structured analysis.">> :
    ph \in AnalyticalPhrases, h \in MemoryHints(a) }

\* BrainAI._generate_creative_response
GenerateCreative(a, message, from_brain) ==
  { IF from_brain = "Elaine"
    THEN <<Tag(a), "I appreciate your analytical approach, Elaine!", ph>> \o message
           \o GetContextResponse(message, "creative") \o h
           \o <<"Let me paint some creative scenarios...">>
    ELSE <<Tag(a), ph, "when you mention">> \o message
           \o GetContextResponse(message, "creative") \o h
           \o <<"I can see vibrant possibilities and unconventional solutions emerging!">> :
    ph \in CreativePhrases, h \in MemoryHints(a) }

Generate(a, message, from_brain, mode) ==
  IF mode = "analytical"
  THEN GenerateAnalytical(a, message, from_brain)
  ELSE GenerateCreative(a, message, from_brain)

\* ------------------------------------------------------- ordered dicts

\* d[k] = v on a dict kept as the sequence of its items in insertion order.
DictSet(d, k, v) ==
  IF \E i \in DOMAIN d : d[i].key = k
  THEN [i \in DOMAIN d |-> IF d[i].key = k THEN [key |-> k, value |-> v] ELSE d[i]]
  ELSE Append(d, [key |-> k, value |-> v])

\* Mutant: the last matching item wins.
LastMatch(d, msg_lower) ==
  LET hits == {i \in DOMAIN d : Contains(msg_lower, LowerMsg(d[i].key))}
  IN IF hits = {} THEN 0 ELSE CHOOSE i \in hits : \A j \in hits : i >= j

\* The first item, in insertion order, whose key (lower-cased) is in msg_lower.
FirstMatch(d, msg_lower) ==
  LET hits == {i \in DOMAIN d : Contains(msg_lower, LowerMsg(d[i].key))}
  IN IF hits = {} THEN 0 ELSE CHOOSE i \in hits : \A j \in hits : i <= j

\* logic_plugins, in registration order: key, key.replace("_", "-"), label.
LogicPlugins ==
  << [key |-> "first_order", hyphen |-> "first-order", label |-> "[First-order logic]:"],
     [key |-> "fuzzy", hyphen |-> "fuzzy", label |-> "[Fuzzy logic]:"],
     [key |-> "modal", hyphen |-> "modal", label |-> "[Modal logic]:"],
     [key |-> "temporal", hyphen |-> "temporal", label |-> "[Temporal logic]:"],
     [key |-> "description", hyphen |-> "description", label |-> "[Description logic]:"],
     [key |-> "probability", hyphen |-> "probability", label |-> "[Probability logic]:"],
     [key |-> "perlin", hyphen |-> "perlin", label |-> "[Perlin Noise Gen]:"],
     [key |-> "voronoi", hyphen |-> "voronoi", label |-> "[Voronoi Noise Gen]:"],
     [key |-> "diamond_square", hyphen |-> "diamond-square", label |-> "[Diamond-Square Algorithm]:"],
     [key |-> "cellular_automata", hyphen |-> "cellular-automata", label |-> "[Cellular Automata Sim]:"] >>

\* The reply of the first plugin whose key is in the message, <<>> for none.
PluginResponse(message) ==
  LET ml == LowerMsg(message)
      hits == {i \in DOMAIN LogicPlugins :
                 \/ Contains(ml, <<LogicPlugins[i].hyphen>>)
                 \/ Contains(ml, <<LogicPlugins[i].key, "logic">>)}
  IN IF hits = {} THEN <<>>
     ELSE <<LogicPlugins[CHOOSE i \in hits : \A j \in hits : i <= j].label>> \o message

\* custom_templates, in insertion order.
CustomTemplates ==
  << [trigger |-> <<"i", "need", "a", "sprite", "for", "a", "game">>,
      reply |-> <<"Would you like an animal, person, a monster, or make something up?">>],
     [trigger |-> <<"open", "world", "background">>,
      reply |-> <<"What kind of environment? Forest, desert, urban, or something unique?">>],
     [trigger |-> <<"how", "do", "i">>,
      reply |-> <<"Let me search for instructions on that topic.">>],
     [trigger |-> <<"what", "does">>,
      reply |-> <<"I'll look up the definition for you.">>],
     [trigger |-> <<"define">>,
      reply |-> <<"I'll find a clear explanation for you.">>] >>

TemplateHit(message) ==
  LET ml == LowerMsg(message)
      hits == {i \in DOMAIN CustomTemplates : Contains(ml, CustomTemplates[i].trigger)}
  IN IF hits = {} THEN 0 ELSE CHOOSE i \in hits : \A j \in hits : i <= j

\* 'how do i' in msg_lower or 'what does' in msg_lower or 'define' in msg_lower
IsSearchStyle(message) ==
  LET ml == LowerMsg(message)
  IN \/ Contains(ml, <<"how", "do", "i">>)
     \/ Contains(ml, <<"what", "does">>)
     \/ Contains(ml, <<"define">>)

\* The reply of the first template whose trigger is in the message, with the
\* search results `web` appended for a search-style message.
TemplateResponse(message, web) ==
  LET t == CustomTemplates[TemplateHit(message)]
      query == AfterLastSub(LowerMsg(message), t.trigger)
  IN IF IsSearchStyle(message)
     THEN t.reply \o <<"Search Results for">> \o query \o web
     ELSE t.reply

\* The reply of the first stored definition whose term is in the message.
DefinitionResponse(a, message) ==
  LET i == FirstMatch(definitions[a], LowerMsg(message))
  IN IF i = 0 THEN <<>>
     ELSE <<Tag(a), "Recall:">> \o definitions[a][i].key \o <<"means">>
            \o definitions[a][i].value

\* process_input, lines 1072-1104: definitions, then plugins (which replace a
\* definition reply), then templates (only when there is no reply yet).
FixedResponse(a, message, web) ==
  LET viaPlugin == PluginResponse(message)
      r1 == IF viaPlugin # <<>> THEN viaPlugin ELSE DefinitionResponse(a, message)
  IN IF r1 # <<>> THEN r1
     ELSE IF TemplateHit(message) # 0 THEN TemplateResponse(message, web)
     ELSE <<>>

\* ------------------------------------------------------- process_input

Top == stack[Len(stack)]

SetTop(f) == [stack EXCEPT ![Len(stack)] = f]

NewFrame(a, message, from_brain, ts) ==
  [ agent |-> a, message |-> message, from_brain |-> from_brain, timestamp |-> ts,
    pc |-> "dispatch", response |-> <<>>, mode |-> "none", overall |-> 0,
    tries |-> <<>>, acc |-> 0 ]

At(pc) == stack # <<>> /\ Top.pc = pc

\* from_brain or 'User'
Source(f) == IF f.from_brain = "None" THEN "User" ELSE f.from_brain

MemoryEntry(f, importance, context) ==
  [ timestamp |-> f.timestamp, input |-> f.message, from |-> Source(f),
    importance |-> importance, context |-> context ]

IsTeam(message) == LowerMsg(message) \in TeamPhrases

\* msg_lower.startswith("learn:")
IsLearn(message) == Len(message) >= 1 /\ Lower(message[1]) = "learn:"

\* msg_lower.startswith("define "), the message being stripped
IsDefine(message) == Len(message) >= 2 /\ Lower(message[1]) = "define"

LearnedHit(a, message) == FirstMatch(custom_learned[a], LowerMsg(message))

\* "delegate " in msg_lower and ("elaine" in msg_lower or "carrie" in msg_lower)
IsDelegation(message) ==
  LET ml == LowerMsg(message)
  IN /\ \E i \in 1..(Len(ml) - 1) : ml[i] = "delegate"
     /\ (HasTok(ml, "elaine") \/ HasTok(ml, "carrie"))

\* hasattr(self, 'delegate_callback_<target>'): launch_elaine gives Elaine the
\* callback to Carrie, launch_carrie gives Carrie the callback to Elaine.
HasCallback(a, target) == a = Other(target)

\* The agent a delegated message goes to, "none" when the message is no
\* delegation or the agent lacks the callback (lines 1081-1087).
DelegateTarget(a, message) ==
  LET ml == LowerMsg(message)
  IN IF ~IsDelegation(message) THEN "none"
     ELSE IF HasTok(ml, "elaine") /\ HasCallback(a, "Elaine") THEN "Elaine"
     ELSE IF HasTok(ml, "carrie") /\ HasCallback(a, "Carrie") THEN "Carrie"
     ELSE "none"

Launch(a) ==
  /\ a \notin online
  /\ stack = <<>>
  /\ online' = online \cup {a}
  /\ UNCHANGED << backgroundVars, use_ollama, memory_db, conversation_db, memory, conversation_history,
                  context_memory, recent_replies, custom_learned, definitions, triadic,
                  last_resonance, stack, clock, calls, recorded >>

ToggleOllama(a) ==
  /\ a \in online
  /\ stack = <<>>
  /\ use_ollama' = [use_ollama EXCEPT ![a] = ~use_ollama[a]]
  /\ UNCHANGED << backgroundVars, online, memory_db, conversation_db, memory, conversation_history,
                  context_memory, recent_replies, custom_learned, definitions, triadic,
                  last_resonance, stack, clock, calls, recorded >>

\* The interface calls process_input(message) on a launched agent.
PI_Call(a, message, limit) ==
  /\ a \in online
  /\ stack = <<>>
  /\ calls < limit
  /\ calls' = calls + 1
  /\ clock' = clock + 1
  /\ stack' = << NewFrame(a, message, "None", clock + 1) >>
  /\ UNCHANGED << backgroundVars, online, use_ollama, memory_db, conversation_db, memory,
                  conversation_history, context_memory, recent_replies, custom_learned,
                  definitions, triadic, last_resonance, recorded >>

Return(f, response) == [f EXCEPT !.response = response, !.pc = "return"]

storeVars ==
  << memory_db, conversation_db, memory, conversation_history, context_memory >>

\* lines 1012-1014
PI_TeamStatus ==
  /\ At("dispatch")
  /\ IsTeam(Top.message)
  /\ stack' = SetTop(Return(Top, <<Tag(Top.agent)>> \o GetTeamStatus))
  /\ UNCHANGED << backgroundVars, online, use_ollama, storeVars, recent_replies, custom_learned,
                  definitions, triadic, last_resonance, clock, calls, recorded >>

\* Mutant: the learn command registers the trigger and stores no MemoryEntry.
PI_LearnNoMemory ==
  /\ At("dispatch")
  /\ ~IsTeam(Top.message) /\ IsLearn(Top.message)
  /\ HasTok(Tail(Top.message), "=>")
  /\ LET f == Top
         a == f.agent
         learn_data == Tail(f.message)
         input_part == LowerMsg(Before(learn_data, "=>"))
         response_part == After(learn_data, "=>")
     IN /\ custom_learned' =
             [custom_learned EXCEPT ![a] = DictSet(@, input_part, response_part)]
        /\ stack' = SetTop(Return(f, <<Tag(a), "Learned custom response for">> \o input_part))
  /\ UNCHANGED << backgroundVars, online, use_ollama, storeVars, recent_replies, definitions, triadic,
                  last_resonance, clock, calls, recorded >>

\* lines 1016-1026
PI_Learn ==
  /\ At("dispatch")
  /\ ~IsTeam(Top.message) /\ IsLearn(Top.message)
  /\ HasTok(Tail(Top.message), "=>")
  /\ LET f == Top
         a == f.agent
         learn_data == Tail(f.message)
         input_part == LowerMsg(Before(learn_data, "=>"))
         response_part == After(learn_data, "=>")
     IN /\ custom_learned' =
             [custom_learned EXCEPT ![a] = DictSet(@, input_part, response_part)]
        /\ memory_db' = [memory_db EXCEPT ![a] = Append(@, MemoryEntry(f, 9, <<"LEARNED">>))]
        /\ stack' = SetTop(Return(f, <<Tag(a), "Learned custom response for">> \o input_part))
  /\ UNCHANGED << backgroundVars, online, use_ollama, conversation_db, memory, conversation_history,
                  context_memory, recent_replies, definitions, triadic, last_resonance,
                  clock, calls, recorded >>

\* lines 1027-1028
PI_LearnBadFormat ==
  /\ At("dispatch")
  /\ ~IsTeam(Top.message) /\ IsLearn(Top.message)
  /\ ~HasTok(Tail(Top.message), "=>")
  /\ stack' = SetTop(Return(Top, <<Tag(Top.agent), "Please use 'learn:input=>response' format.">>))
  /\ UNCHANGED << backgroundVars, online, use_ollama, storeVars, recent_replies, custom_learned,
                  definitions, triadic, last_resonance, clock, calls, recorded >>

\* lines 1031-1041
PI_DefineStore ==
  /\ At("dispatch")
  /\ ~IsTeam(Top.message) /\ ~IsLearn(Top.message) /\ IsDefine(Top.message)
  /\ HasTok(Tail(Top.message), ":")
  /\ LET f == Top
         a == f.agent
         term == Tail(f.message)
         key == Before(term, ":")
         val == After(term, ":")
         entry == MemoryEntry(f, 8, <<"DEFINITION">>)
     IN /\ definitions' = [definitions EXCEPT ![a] = DictSet(@, key, val)]
        /\ memory_db' = [memory_db EXCEPT ![a] = Append(@, entry)]
        /\ memory' = [memory EXCEPT ![a] = Append(@, entry)]
        /\ stack' = SetTop(Return(f, <<Tag(a), "Definition stored for">> \o key))
  /\ UNCHANGED << backgroundVars, online, use_ollama, conversation_db, conversation_history,
                  context_memory, recent_replies, custom_learned, triadic, last_resonance,
                  clock, calls, recorded >>

\* lines 1042-1046
PI_DefineLookup ==
  /\ At("dispatch")
  /\ ~IsTeam(Top.message) /\ ~IsLearn(Top.message) /\ IsDefine(Top.message)
  /\ ~HasTok(Tail(Top.message), ":")
  /\ \E search_results \in WebResults :
       LET f == Top
           a == f.agent
           term == Tail(f.message)
       IN /\ memory_db' =
               [memory_db EXCEPT ![a] = Append(@, MemoryEntry(f, 7, <<"WEB_LOOKUP">>))]
          /\ stack' = SetTop(Return(f, <<Tag(a), "Web definition for">> \o term
                                         \o search_results))
  /\ UNCHANGED << backgroundVars, online, use_ollama, conversation_db, memory, conversation_history,
                  context_memory, recent_replies, custom_learned, definitions, triadic,
                  last_resonance, clock, calls, recorded >>

IsCommand(message) == IsTeam(message) \/ IsLearn(message) \/ IsDefine(message)

\* Mutant: the learned triggers are looked at before the commands.
PI_CustomLearnedFirst ==
  /\ At("dispatch")
  /\ LearnedHit(Top.agent, Top.message) # 0
  /\ LET f == Top
         a == f.agent
     IN stack' = SetTop(Return(f, <<Tag(a)>>
                                    \o custom_learned[a][LearnedHit(a, f.message)].value))
  /\ UNCHANGED << backgroundVars, online, use_ollama, storeVars, recent_replies, custom_learned,
                  definitions, triadic, last_resonance, clock, calls, recorded >>

\* lines 1048-1052
PI_CustomLearned ==
  /\ At("dispatch")
  /\ ~IsCommand(Top.message)
  /\ LearnedHit(Top.agent, Top.message) # 0
  /\ LET f == Top
         a == f.agent
     IN stack' = SetTop(Return(f, <<Tag(a)>>
                                    \o custom_learned[a][LearnedHit(a, f.message)].value))
  /\ UNCHANGED << backgroundVars, online, use_ollama, storeVars, recent_replies, custom_learned,
                  definitions, triadic, last_resonance, clock, calls, recorded >>

\* Mutant: the entry goes to the in-process mirror only, not to the store.
PI_RememberMirrorOnly ==
  /\ At("dispatch")
  /\ ~IsCommand(Top.message)
  /\ LearnedHit(Top.agent, Top.message) = 0
  /\ LET f == Top
         a == f.agent
         entry == MemoryEntry(f, CalculateImportance(f.message), ExtractContext(f.message))
     IN /\ memory' = [memory EXCEPT ![a] = Append(@, entry)]
        /\ stack' = SetTop([f EXCEPT !.pc = "resonance"])
  /\ UNCHANGED << backgroundVars, online, use_ollama, memory_db, conversation_db, conversation_history,
                  context_memory, recent_replies, custom_learned, definitions, triadic,
                  last_resonance, clock, calls, recorded >>

\* lines 1054-1062
PI_Remember ==
  /\ At("dispatch")
  /\ ~IsCommand(Top.message)
  /\ LearnedHit(Top.agent, Top.message) = 0
  /\ LET f == Top
         a == f.agent
         entry == MemoryEntry(f, CalculateImportance(f.message), ExtractContext(f.message))
     IN /\ memory_db' = [memory_db EXCEPT ![a] = Append(@, entry)]
        /\ memory' = [memory EXCEPT ![a] = Append(@, entry)]
        /\ stack' = SetTop([f EXCEPT !.pc = "resonance"])
  /\ UNCHANGED << backgroundVars, online, use_ollama, conversation_db, conversation_history,
                  context_memory, recent_replies, custom_learned, definitions, triadic,
                  last_resonance, clock, calls, recorded >>

\* lines 1064-1070, no other thread touching the triadic state
PI_UpdateHarmony ==
  /\ At("resonance")
  /\ LET f == Top
         a == f.agent
         t == UpdateHarmony(triadic[a], InputResonance(f.message))
     IN /\ triadic' = [triadic EXCEPT ![a] = t]
        /\ last_resonance' = [last_resonance EXCEPT ![a] = OverallCubed(t)]
        /\ stack' = SetTop([f EXCEPT !.overall = OverallCubed(t), !.pc = "respond"])
  /\ UNCHANGED << backgroundVars, online, use_ollama, storeVars, recent_replies, custom_learned,
                  definitions, clock, calls, recorded >>

\* lines 1080-1087: return self.delegate_callback_<target>(cmd), the callback
\* being <target>.process_input(cmd) when the target is launched.
PI_Delegate ==
  /\ At("respond")
  /\ DelegateTarget(Top.agent, Top.message) \in online
  /\ Len(stack) < MaxDepth
  /\ LET f == Top
         cmd == AfterLast(f.message, "delegate")
     IN stack' = Append(SetTop([f EXCEPT !.pc = "delegated"]),
                        NewFrame(DelegateTarget(f.agent, f.message), cmd, "None", clock + 1))
  /\ clock' = clock + 1
  /\ UNCHANGED << backgroundVars, online, use_ollama, storeVars, recent_replies, custom_learned,
                  definitions, triadic, last_resonance, calls, recorded >>

\* lines 1083-1087 when the interpreter's recursion limit is reached (MaxDepth
\* stands for it): the call of the callback raises RecursionError, which no
\* frame of process_input catches.
PI_DelegateOverflow ==
  /\ At("respond")
  /\ DelegateTarget(Top.agent, Top.message) \in online
  /\ Len(stack) >= MaxDepth
  /\ stack' = SetTop([Top EXCEPT !.pc = "raised", !.response = <<"RecursionError">>])
  /\ UNCHANGED << backgroundVars, online, use_ollama, storeVars, recent_replies, custom_learned,
                  definitions, triadic, last_resonance, clock, calls, recorded >>

\* The exception leaves a frame: the frame under it is left in turn, and the
\* call made from outside ends with the exception instead of a reply.
PI_Raise ==
  /\ At("raised")
  /\ stack' = IF Len(stack) = 1 THEN <<>>
              ELSE LET outer == SubSeq(stack, 1, Len(stack) - 1)
                   IN [outer EXCEPT ![Len(outer)] =
                         [@ EXCEPT !.pc = "raised", !.response = Top.response]]
  /\ UNCHANGED << backgroundVars, online, use_ollama, storeVars, recent_replies, custom_learned,
                  definitions, triadic, last_resonance, clock, calls, recorded >>

\* lines 1080-1087, the callback's else: "[<target> not online]"
PI_DelegateOffline ==
  /\ At("respond")
  /\ DelegateTarget(Top.agent, Top.message) \in Agents \ online
  /\ stack' = SetTop(Return(Top,
       << IF DelegateTarget(Top.agent, Top.message) = "Carrie"
          THEN "[Carrie not online]" ELSE "[Elaine not online]" >>))
  /\ UNCHANGED << backgroundVars, online, use_ollama, storeVars, recent_replies, custom_learned,
                  definitions, triadic, last_resonance, clock, calls, recorded >>

\* lines 1130-1131: the reply chosen, on to the repeat check
Chosen(f, response) ==
  [f EXCEPT !.response = response,
            !.mode = SelectMode(f.message, f.overall),
            !.tries = <<response>>,
            !.pc = IF response \in Range(recent_replies[f.agent])
                   THEN "reselect" ELSE "record"]

\* lines 1072-1113 when a definition, a plugin or a template answers
PI_ReplyFixed ==
  /\ At("respond")
  /\ DelegateTarget(Top.agent, Top.message) = "none"
  /\ \E web \in WebResults :
       /\ FixedResponse(Top.agent, Top.message, web) # <<>>
       /\ stack' = SetTop(Chosen(Top, FixedResponse(Top.agent, Top.message, web)))
  /\ UNCHANGED << backgroundVars, online, use_ollama, storeVars, recent_replies, custom_learned,
                  definitions, triadic, last_resonance, clock, calls, recorded >>

NoFixedResponse(f) == \A web \in WebResults : FixedResponse(f.agent, f.message, web) = <<>>

\* lines 1116-1123: process_input_with_ollama(prompt)
PI_ReplyOllama(replies) ==
  /\ At("respond")
  /\ DelegateTarget(Top.agent, Top.message) = "none"
  /\ NoFixedResponse(Top)
  /\ use_ollama[Top.agent]
  /\ \E response \in replies : stack' = SetTop(Chosen(Top, response))
  /\ UNCHANGED << backgroundVars, online, use_ollama, storeVars, recent_replies, custom_learned,
                  definitions, triadic, last_resonance, clock, calls, recorded >>

\* lines 1124-1128
PI_ReplyGenerated ==
  /\ At("respond")
  /\ DelegateTarget(Top.agent, Top.message) = "none"
  /\ NoFixedResponse(Top)
  /\ ~use_ollama[Top.agent]
  /\ \E response \in Generate(Top.agent, Top.message, Top.from_brain,
                               SelectMode(Top.message, Top.overall)) :
       stack' = SetTop(Chosen(Top, response))
  /\ UNCHANGED << backgroundVars, online, use_ollama, storeVars, recent_replies, custom_learned,
                  definitions, triadic, last_resonance, clock, calls, recorded >>

\* Mutant: the loop gives up one reselection early (range(2)).
ReselectedTwice(f, response) ==
  [f EXCEPT !.response = response,
            !.tries = Append(f.tries, response),
            !.pc = IF \/ response \notin Range(recent_replies[f.agent])
                      \/ Len(f.tries) >= ReselectLimit - 1
                   THEN "record" ELSE "reselect"]

\* The state after one more reselection `response` (lines 1132-1138).
Reselected(f, response) ==
  [f EXCEPT !.response = response,
            !.tries = Append(f.tries, response),
            !.pc = IF \/ response \notin Range(recent_replies[f.agent])
                      \/ Len(f.tries) >= ReselectLimit
                   THEN "record" ELSE "reselect"]

\* lines 1132-1138: one pass of `for _ in range(3)`
PI_Reselect ==
  /\ At("reselect")
  /\ \E response \in Generate(Top.agent, Top.message, Top.from_brain, Top.mode) :
       stack' = SetTop(Reselected(Top, response))
  /\ UNCHANGED << backgroundVars, online, use_ollama, storeVars, recent_replies, custom_learned,
                  definitions, triadic, last_resonance, clock, calls, recorded >>

\* Mutant: pop() for pop(0), the newest reply dropped instead of the oldest.
PushRecentDropsNewest(window, response) ==
  LET w == Append(window, response)
  IN IF Len(w) > MaxRecentReplies THEN SubSeq(w, 1, Len(w) - 1) ELSE w

\* recent_replies.append(response), pop(0) beyond max_recent_replies
PushRecent(window, response) ==
  LET w == Append(window, response)
  IN IF Len(w) > MaxRecentReplies THEN Tail(w) ELSE w

\* Mutant: the reply is recorded and returned as it is, no suggestion appended.
PI_RecordNoSuggestion(bank) ==
  /\ At("record")
  /\ LET f == Top
         a == f.agent
     IN /\ recent_replies' = [recent_replies EXCEPT ![a] = PushRecent(@, f.response)]
        /\ recorded' = [recorded EXCEPT ![a] = Append(@, f.response)]
        /\ stack' = SetTop([f EXCEPT !.pc = "persist"])
  /\ UNCHANGED << backgroundVars, online, use_ollama, storeVars, custom_learned, definitions, triadic,
                  last_resonance, clock, calls >>

\* lines 1139-1175
PI_Record(bank) ==
  /\ At("record")
  /\ LET f == Top
         a == f.agent
     IN /\ recent_replies' = [recent_replies EXCEPT ![a] = PushRecent(@, f.response)]
        /\ recorded' = [recorded EXCEPT ![a] = Append(@, f.response)]
        /\ \E suggestion \in bank :
             stack' = SetTop([f EXCEPT !.response = @ \o <<SuggestionMarker, suggestion>>,
                                       !.pc = "persist"])
  /\ UNCHANGED << backgroundVars, online, use_ollama, storeVars, custom_learned, definitions, triadic,
                  last_resonance, clock, calls >>

\* BrainAI._update_context
UpdateContext(cm, input, response) ==
  LET c == Append(cm, [input |-> input, response |-> response])
  IN IF Len(c) > MaxContextMemory THEN Tail(c) ELSE c

\* Mutant: one conversation table for both agents.
PI_PersistShared ==
  /\ At("persist")
  /\ LET f == Top
         a == f.agent
         conv_entry == [ timestamp |-> f.timestamp, input |-> f.message,
                         response |-> f.response, from |-> f.from_brain ]
     IN /\ conversation_db' = [b \in Agents |-> Append(conversation_db[b], conv_entry)]
        /\ conversation_history' = [conversation_history EXCEPT ![a] = Append(@, conv_entry)]
        /\ context_memory' =
             [context_memory EXCEPT ![a] = UpdateContext(@, f.message, f.response)]
        /\ stack' = SetTop([f EXCEPT !.pc = "return"])
  /\ UNCHANGED << backgroundVars, online, use_ollama, memory_db, memory, recent_replies, custom_learned,
                  definitions, triadic, last_resonance, clock, calls, recorded >>

\* Mutant: the turn goes to the in-process mirror only, not to the store.
PI_PersistMirrorOnly ==
  /\ At("persist")
  /\ LET f == Top
         a == f.agent
         conv_entry == [ timestamp |-> f.timestamp, input |-> f.message,
                         response |-> f.response, from |-> f.from_brain ]
     IN /\ conversation_history' = [conversation_history EXCEPT ![a] = Append(@, conv_entry)]
        /\ context_memory' =
             [context_memory EXCEPT ![a] = UpdateContext(@, f.message, f.response)]
        /\ stack' = SetTop([f EXCEPT !.pc = "return"])
  /\ UNCHANGED << backgroundVars, online, use_ollama, memory_db, conversation_db, memory, recent_replies,
                  custom_learned, definitions, triadic, last_resonance, clock, calls,
                  recorded >>

\* lines 1177-1186
PI_Persist ==
  /\ At("persist")
  /\ LET f == Top
         a == f.agent
         conv_entry == [ timestamp |-> f.timestamp, input |-> f.message,
                         response |-> f.response, from |-> f.from_brain ]
     IN /\ conversation_db' = [conversation_db EXCEPT ![a] = Append(@, conv_entry)]
        /\ conversation_history' = [conversation_history EXCEPT ![a] = Append(@, conv_entry)]
        /\ context_memory' =
             [context_memory EXCEPT ![a] = UpdateContext(@, f.message, f.response)]
        /\ stack' = SetTop([f EXCEPT !.pc = "return"])
  /\ UNCHANGED << backgroundVars, online, use_ollama, memory_db, memory, recent_replies, custom_learned,
                  definitions, triadic, last_resonance, clock, calls, recorded >>

\* The return of process_input: to the interface, or to the delegating call,
\* which returns the same reply in turn.
PI_Return ==
  /\ At("return")
  /\ stack' = IF Len(stack) = 1 THEN <<>>
              ELSE LET outer == SubSeq(stack, 1, Len(stack) - 1)
                   IN [outer EXCEPT ![Len(outer)] = Return(@, Top.response)]
  /\ UNCHANGED << backgroundVars, online, use_ollama, storeVars, recent_replies, custom_learned,
                  definitions, triadic, last_resonance, clock, calls, recorded >>

\* ------------------------------------------------------- query_ollama

REQUEST_TIMEOUT == 120

\* The HTTP error statuses the catalogue reaches.
Statuses == {404, 500}

\* What requests.post followed by raise_for_status ends in: a response with
\* a success status, or an exception (ConnectTimeout is both a ConnectionError
\* and a Timeout; ReadTimeout is a Timeout only; RequestException stands for
\* any other exception of the library).
PostOutcomes ==
  {[kind |-> k, status |-> 0] :
     k \in {"ok", "ReadTimeout", "ConnectTimeout", "ConnectionError", "RequestException"}}
  \cup {[kind |-> "HTTPError", status |-> s] : s \in Statuses}

NoException == [kind |-> "none", status |-> 0]

\* except requests.exceptions.ConnectionError
IsConnectionError(kind) == kind \in {"ConnectionError", "ConnectTimeout"}

\* Mutant: the retry clause catches every timeout, connect timeouts included.
RetriesOnAnyTimeout(kind) == kind \in {"ReadTimeout", "ConnectTimeout"}

\* except requests.exceptions.ReadTimeout (line 43)
RetriesOn(kind) == kind = "ReadTimeout"

\* A returned value: its Python type and its text.
Str(text) == [type |-> "str", text |-> text]

NoResult == [type |-> "none", text |-> <<>>]

ModelText == "(a text generated by the model)"

NoResponse == Str(<<"No response from Ollama.">>)

UnableToConnect == Str(<<"Ollama error: Unable to connect. Is the Ollama server running?">>)

\* Bodies of a successful non-streamed response: {"response": "<text>"},
\* {"response": ""}, {"response": null}, {} , a body that is not JSON, an
\* empty body, a JSON list, and {"response": 42}.
JsonBodies ==
  {"text", "empty_text", "null", "no_key", "not_json", "empty", "not_dict", "number"}

\* data = response.json(); data.get('response', '') or "No response from Ollama."
\* The exception raised, if any, and else the value returned.
ParseJson(body) ==
  CASE body \in {"not_json", "empty"} ->
         [exc |-> [kind |-> "JSONDecodeError", status |-> 0], value |-> NoResult]
    [] body = "not_dict" ->
         [exc |-> [kind |-> "AttributeError", status |-> 0], value |-> NoResult]
    [] body = "text" -> [exc |-> NoException, value |-> Str(<<ModelText>>)]
    [] body = "number" -> [exc |-> NoException, value |-> [type |-> "int", text |-> <<"42">>]]
    [] OTHER -> [exc |-> NoException, value |-> NoResponse]

\* Lines of a streamed body: a blank line, {"response": "<text>"},
\* {"response": ""}, a line that is not JSON, {"response": 42}, {"done": true}.
LineKinds == {"blank", "chunk", "chunk_empty", "not_json", "number", "no_key"}

\* Lines of a streamed body.
MaxLines == 2

\* How a stream ends: at its end, or broken (requests raises ConnectionError
\* on a read timeout in mid-stream, ChunkedEncodingError on a broken chunk).
StreamEnds == {"end", "ConnectionError", "RequestException"}

\* One turn of the loop over iter_lines (lines 51-61): only a chunk with a
\* text adds to the result; a blank line is skipped, a line that is not JSON
\* or has no "response" is ignored, and `result += 42` raises TypeError, which
\* is ignored as well.
AddLine(result, line) == IF line = "chunk" THEN Append(result, ModelText) ELSE result

\* The except clauses of lines 75-86, in order.
ExceptClauses == <<"ConnectionError", "HTTPError", "Exception">>

\* Does `except <clause>` catch an exception of this kind; every kind here is
\* a subclass of Exception.
Catches(clause, kind) ==
  CASE clause = "ConnectionError" -> IsConnectionError(kind)
    [] clause = "HTTPError" -> kind = "HTTPError"
    [] OTHER -> TRUE

\* The first clause that catches the exception, 0 when none does.
Handler(kind) ==
  LET hits == {i \in DOMAIN ExceptClauses : Catches(ExceptClauses[i], kind)}
  IN IF hits = {} THEN 0 ELSE CHOOSE i \in hits : \A j \in hits : i <= j

\* What the clause returns.
Handle(clause, exc) ==
  CASE clause = "ConnectionError" -> UnableToConnect
    [] clause = "HTTPError" ->
         Str(<<"Ollama error: HTTP", ToString(exc.status), ":", "(the body of the error response)">>)
    [] OTHER -> Str(<<"Ollama error:", exc.kind>>)

QO_Idle ==
  [pc |-> "idle", stream |-> FALSE, requests |-> <<>>, first |-> "none",
   lines |-> <<>>, exc |-> NoException, result |-> NoResult, raised |-> FALSE]

\* query_ollama(prompt, stream=stream) is called.
QO_Call(stream) ==
  /\ ollama.pc \in {"idle", "done"}
  /\ ollama' = [QO_Idle EXCEPT !.pc = "post", !.stream = stream]
  /\ UNCHANGED << pipeVars, trainVars, sideVars >>

\* A response has arrived: line 50 (result = "") or line 72.
AfterResponse(o) ==
  IF o.stream THEN [o EXCEPT !.pc = "iter", !.result = Str(<<>>)]
  ELSE [o EXCEPT !.pc = "json"]

\* lines 40-43: the first request, with REQUEST_TIMEOUT
QO_Post(outcome) ==
  /\ ollama.pc = "post"
  /\ LET o == [ollama EXCEPT !.requests = Append(@, REQUEST_TIMEOUT),
                             !.first = outcome.kind]
     IN ollama' = IF outcome.kind = "ok" THEN AfterResponse(o)
                  ELSE IF RetriesOn(outcome.kind) THEN [o EXCEPT !.pc = "retry"]
                  ELSE [o EXCEPT !.pc = "except", !.exc = outcome]
  /\ UNCHANGED << pipeVars, trainVars, sideVars >>

\* lines 44-46: the retry, with REQUEST_TIMEOUT * 2; an exception of the retry
\* propagates to the outer handlers.
QO_Retry(outcome) ==
  /\ ollama.pc = "retry"
  /\ LET o == [ollama EXCEPT !.requests = Append(@, REQUEST_TIMEOUT * 2)]
     IN ollama' = IF outcome.kind = "ok" THEN AfterResponse(o)
                  ELSE [o EXCEPT !.pc = "except", !.exc = outcome]
  /\ UNCHANGED << pipeVars, trainVars, sideVars >>

\* lines 72-73
QO_Json(body) ==
  /\ ollama.pc = "json"
  /\ LET p == ParseJson(body)
     IN ollama' = IF p.exc = NoException
                  THEN [ollama EXCEPT !.pc = "done", !.result = p.value]
                  ELSE [ollama EXCEPT !.pc = "except", !.exc = p.exc]
  /\ UNCHANGED << pipeVars, trainVars, sideVars >>

\* lines 51-61: one line of the stream
QO_Line(line) ==
  /\ ollama.pc = "iter"
  /\ Len(ollama.lines) < MaxLines
  /\ ollama' = [ollama EXCEPT !.lines = Append(@, line),
                              !.result = Str(AddLine(@.text, line))]
  /\ UNCHANGED << pipeVars, trainVars, sideVars >>

\* lines 51 and 62-69: the stream ends; a stream that breaks raises out of the
\* loop; an empty result falls back to response.json(), which raises on the
\* consumed stream and is answered "No response from Ollama.".
QO_StreamEnd(how) ==
  /\ ollama.pc = "iter"
  /\ ollama' =
       IF how # "end"
       THEN [ollama EXCEPT !.pc = "except", !.exc = [kind |-> how, status |-> 0],
                           !.result = NoResult]
       ELSE IF ollama.result.text # <<>>
            THEN [ollama EXCEPT !.pc = "done"]
            ELSE [ollama EXCEPT !.pc = "done", !.result = NoResponse]
  /\ UNCHANGED << pipeVars, trainVars, sideVars >>

\* lines 75-86
QO_Except ==
  /\ ollama.pc = "except"
  /\ ollama' =
       IF Handler(ollama.exc.kind) = 0
       THEN [ollama EXCEPT !.pc = "done", !.raised = TRUE]
       ELSE [ollama EXCEPT !.pc = "done",
                           !.result = Handle(ExceptClauses[Handler(ollama.exc.kind)], ollama.exc)]
  /\ UNCHANGED << pipeVars, trainVars, sideVars >>

\* ------------------------------------- update_harmony, statement by statement

\* Every variable of the pipeline but the triadic state and the stack.
aroundHarmony ==
  << online, use_ollama, storeVars, recent_replies, custom_learned, definitions,
     clock, calls, recorded >>

\* One step of update_harmony in the foreground call: at most one attribute
\* of the triadic object is read or written; the value in hand is kept in acc.
UH_Step(to, acc, t) ==
  /\ stack' = SetTop([Top EXCEPT !.pc = to, !.acc = acc])
  /\ triadic' = [triadic EXCEPT ![Top.agent] = t]
  /\ UNCHANGED << backgroundVars, aroundHarmony, last_resonance >>

Mine == triadic[Top.agent]

\* line 352: fast_harmony is read ...
UH_FastRead ==
  /\ At("resonance")
  /\ UH_Step("uh_fast_w", Mine.fast, Mine)

\* Mutant: the read-modify-write of fast is one atomic step on the current value.
UH_FastWriteAtomic ==
  /\ At("uh_fast_w")
  /\ UH_Step("uh_medium_r", 0,
             [Mine EXCEPT !.fast = FastUpdate(Mine.fast, InputResonance(Top.message))])

\* ... and written
UH_FastWrite ==
  /\ At("uh_fast_w")
  /\ UH_Step("uh_medium_r", 0,
             [Mine EXCEPT !.fast = FastUpdate(Top.acc, InputResonance(Top.message))])

\* line 354: medium_harmony is read, then fast_harmony, then medium is written
UH_MediumRead ==
  /\ At("uh_medium_r")
  /\ UH_Step("uh_medium_f", Mine.medium, Mine)

UH_MediumReadFast ==
  /\ At("uh_medium_f")
  /\ UH_Step("uh_medium_w", MediumUpdate(Top.acc, Mine.fast), Mine)

UH_MediumWrite ==
  /\ At("uh_medium_w")
  /\ UH_Step("uh_slow_r", 0, [Mine EXCEPT !.medium = Top.acc])

\* line 356: slow_harmony is read, then medium_harmony, then slow is written
UH_SlowRead ==
  /\ At("uh_slow_r")
  /\ UH_Step("uh_slow_m", Mine.slow, Mine)

UH_SlowReadMedium ==
  /\ At("uh_slow_m")
  /\ UH_Step("uh_slow_w", SlowUpdate(Top.acc, Mine.medium), Mine)

UH_SlowWrite ==
  /\ At("uh_slow_w")
  /\ UH_Step("uh_overall_f", 0, [Mine EXCEPT !.slow = Top.acc])

\* line 361: the three attributes are read one after the other
UH_OverallFast ==
  /\ At("uh_overall_f")
  /\ UH_Step("uh_overall_m", Mine.fast, Mine)

UH_OverallMedium ==
  /\ At("uh_overall_m")
  /\ UH_Step("uh_overall_s", (Top.acc * Mine.medium) \div Scale, Mine)

\* line 361, the last read, and line 1070: last_resonance = overall_resonance
UH_Overall ==
  /\ At("uh_overall_s")
  /\ LET overall3 == Top.acc * Mine.slow
     IN /\ stack' = SetTop([Top EXCEPT !.pc = "respond", !.acc = 0, !.overall = overall3])
        /\ last_resonance' = [last_resonance EXCEPT ![Top.agent] = overall3]
  /\ UNCHANGED << backgroundVars, aroundHarmony, triadic >>

\* ------------------------------------------------------- the trainer

\* The agent whose trainer the model follows (each BrainAI has its own).
Trained == "Elaine"

\* Trainer threads created in one behaviour, and training passes of one thread.
MaxThreads == 2

MaxPasses == 2

Lookback == 50

IsAlive(th) == th.pc \notin {"created", "dead"}

AliveThreads == {t \in DOMAIN threads : IsAlive(threads[t])}

\* threading.Thread(target=self._training_loop, ...), not started yet
NewThread == [pc |-> "created", snippets |-> <<>>, acc |-> 0, adjustments |-> 0, passes |-> 0]

\* learning_rate * scale * (imp - 0.5), with imp = importance / 10 and
\* learning_rate = 0.01: 1 / (10 * 100 * divisor) of (importance - 5).
Delta(importance, divisor) == (Scale * (importance - 5)) \div (10 * 100 * divisor)

\* Mutant: the nudge without max(0.0, min(1.0, ...)).
NudgeUnclamped(x, snippet, divisor) == x + Delta(CalculateImportance(snippet), divisor)

\* max(0.0, min(1.0, x + learning_rate * scale * (imp - 0.5)))
Nudge(x, snippet, divisor) == Clamp(x + Delta(CalculateImportance(snippet), divisor))

\* Every variable but the triadic state and the trainer's.
aroundTrainer ==
  << online, use_ollama, storeVars, recent_replies, custom_learned, definitions,
     last_resonance, stack, clock, calls, recorded, ollama, sideVars >>

\* One step of trainer thread t that touches only its own locals.
T_Step(t, from, th) ==
  /\ t \in DOMAIN threads
  /\ threads[t].pc = from
  /\ threads' = [threads EXCEPT ![t] = th]

T_Local(t, from, th) ==
  /\ T_Step(t, from, th)
  /\ UNCHANGED << aroundTrainer, triadic, training_thread, training_stop_event,
                  training_lock, training_log, callers >>

\* One step of trainer thread t that writes the triadic state.
T_Write(t, from, th, tri) ==
  /\ T_Step(t, from, th)
  /\ triadic' = [triadic EXCEPT ![Trained] = tri]
  /\ UNCHANGED << aroundTrainer, training_thread, training_stop_event,
                  training_lock, training_log, callers >>

Its == triadic[Trained]

\* Mutant: the loop does not look at the stop event.
T_LoopCheckIgnoresEvent(t) ==
  /\ t \in DOMAIN threads
  /\ T_Local(t, "loop", [threads[t] EXCEPT !.pc = "slice", !.passes = @ + 1])

\* line 981: while not self._training_stop_event.is_set()
T_LoopCheck(t) ==
  /\ t \in DOMAIN threads
  /\ T_Local(t, "loop",
       IF training_stop_event THEN [threads[t] EXCEPT !.pc = "dead"]
       ELSE [threads[t] EXCEPT !.pc = "slice", !.passes = @ + 1])

\* train_on_conversations, lines 970-977, and train_on_snippets, lines 949-950:
\* the slice of the mirror, one snippet per turn; no snippet, nothing to do.
T_Slice(t) ==
  /\ t \in DOMAIN threads
  /\ LET convs == LastN(conversation_history[Trained], Lookback)
         snippets == [i \in DOMAIN convs |-> convs[i].input \o convs[i].response]
     IN T_Local(t, "slice",
          [threads[t] EXCEPT !.snippets = snippets, !.adjustments = 0,
                             !.pc = IF snippets = <<>> THEN "log_periodic" ELSE "lock"])

\* line 951: with self._training_lock
T_Acquire(t) ==
  /\ t \in DOMAIN threads
  /\ training_lock = 0
  /\ T_Step(t, "lock", [threads[t] EXCEPT !.pc = "fast_r"])
  /\ training_lock' = t
  /\ UNCHANGED << aroundTrainer, triadic, training_thread, training_stop_event,
                  training_log, callers >>

\* line 957: fast_harmony is read ...
T_FastRead(t) ==
  /\ t \in DOMAIN threads
  /\ T_Local(t, "fast_r", [threads[t] EXCEPT !.pc = "fast_w", !.acc = Its.fast])

\* ... and written
T_FastWrite(t) ==
  /\ t \in DOMAIN threads
  /\ T_Write(t, "fast_w", [threads[t] EXCEPT !.pc = "medium_r", !.acc = 0],
       [Its EXCEPT !.fast = Nudge(threads[t].acc, Head(threads[t].snippets), 1)])

\* line 958
T_MediumRead(t) ==
  /\ t \in DOMAIN threads
  /\ T_Local(t, "medium_r", [threads[t] EXCEPT !.pc = "medium_w", !.acc = Its.medium])

T_MediumWrite(t) ==
  /\ t \in DOMAIN threads
  /\ T_Write(t, "medium_w", [threads[t] EXCEPT !.pc = "slow_r", !.acc = 0],
       [Its EXCEPT !.medium = Nudge(threads[t].acc, Head(threads[t].snippets), 2)])

\* line 959
T_SlowRead(t) ==
  /\ t \in DOMAIN threads
  /\ T_Local(t, "slow_r", [threads[t] EXCEPT !.pc = "slow_w", !.acc = Its.slow])

\* line 959, the write, and line 960; then the next snippet, if any
T_SlowWrite(t) ==
  /\ t \in DOMAIN threads
  /\ T_Write(t, "slow_w",
       [threads[t] EXCEPT !.acc = 0, !.adjustments = @ + 1, !.snippets = Tail(@),
                          !.pc = IF Tail(threads[t].snippets) = <<>>
                                 THEN "log_snippets" ELSE "fast_r"],
       [Its EXCEPT !.slow = Nudge(threads[t].acc, Head(threads[t].snippets), 4)])

\* lines 962-963: the summary is logged and the lock released
T_LogSnippets(t) ==
  /\ t \in DOMAIN threads
  /\ T_Step(t, "log_snippets", [threads[t] EXCEPT !.pc = "log_periodic"])
  /\ training_log' =
       Append(training_log, [type |-> "snippets", adjustments |-> threads[t].adjustments])
  /\ training_lock' = 0
  /\ UNCHANGED << aroundTrainer, triadic, training_thread, training_stop_event, callers >>

\* line 984
T_LogPeriodic(t) ==
  /\ t \in DOMAIN threads
  /\ T_Step(t, "log_periodic", [threads[t] EXCEPT !.pc = "wait", !.adjustments = 0])
  /\ training_log' =
       Append(training_log, [type |-> "periodic", adjustments |-> threads[t].adjustments])
  /\ UNCHANGED << aroundTrainer, triadic, training_thread, training_stop_event,
                  training_lock, callers >>

\* line 988: the wait ends because the event is set
T_WaitSet(t) ==
  /\ t \in DOMAIN threads
  /\ training_stop_event
  /\ T_Local(t, "wait", [threads[t] EXCEPT !.pc = "loop"])

\* line 988: the wait ends because interval_seconds have passed
T_WaitElapsed(t) ==
  /\ t \in DOMAIN threads
  /\ ~training_stop_event
  /\ threads[t].passes < MaxPasses
  /\ T_Local(t, "wait", [threads[t] EXCEPT !.pc = "loop"])

\* ------------------------------------- start / stop_periodic_training

\* The threads from which start and stop are called.
Callers == {"interface", "script"}

\* A caller's position, with what it saw at its check: was any trainer
\* thread alive, and the lifecycle state then.
CallerIdle ==
  [pc |-> "idle", op |-> "none", result |-> "none", alive_at_check |-> FALSE,
   before |-> [thread |-> 0, created |-> 0, event |-> FALSE]]

CallersIdle == \A c \in Callers : callers[c].pc = "idle"

\* Mutant: "already running" is told from the stop event, not from the thread.
TrainerAliveByEvent == training_thread # 0 /\ ~training_stop_event

\* self._training_thread and self._training_thread.is_alive()
TrainerAlive == training_thread # 0 /\ IsAlive(threads[training_thread])

\* Every variable a step of a caller may leave alone.
aroundCaller == << pipeVars, ollama, sideVars, training_lock, training_log >>

AtCheck(k) ==
  [k EXCEPT !.alive_at_check = AliveThreads # {},
            !.before = [thread |-> training_thread, created |-> Len(threads),
                        event |-> training_stop_event]]

\* start_periodic_training() is called
Start_Call(c) ==
  /\ callers[c].pc = "idle"
  /\ Len(threads) < MaxThreads
  /\ callers' = [callers EXCEPT ![c] = [CallerIdle EXCEPT !.pc = "start_check", !.op = "start"]]
  /\ UNCHANGED << aroundCaller, training_thread, training_stop_event, threads >>

\* lines 992-993
Start_Check(c) ==
  /\ callers[c].pc = "start_check"
  /\ callers' = [callers EXCEPT ![c] =
       IF TrainerAlive THEN [AtCheck(@) EXCEPT !.pc = "done", !.result = "False"]
       ELSE [AtCheck(@) EXCEPT !.pc = "start_clear"]]
  /\ UNCHANGED << aroundCaller, training_thread, training_stop_event, threads >>

\* line 994
Start_Clear(c) ==
  /\ callers[c].pc = "start_clear"
  /\ training_stop_event' = FALSE
  /\ callers' = [callers EXCEPT ![c].pc = "start_create"]
  /\ UNCHANGED << aroundCaller, training_thread, threads >>

\* line 995
Start_Create(c) ==
  /\ callers[c].pc = "start_create"
  /\ threads' = Append(threads, NewThread)
  /\ training_thread' = Len(threads) + 1
  /\ callers' = [callers EXCEPT ![c].pc = "start_start"]
  /\ UNCHANGED << aroundCaller, training_stop_event >>

\* lines 996-997: self._training_thread.start(), which raises RuntimeError on
\* a thread started before
Start_Start(c) ==
  /\ callers[c].pc = "start_start"
  /\ IF threads[training_thread].pc = "created"
     THEN /\ threads' = [threads EXCEPT ![training_thread].pc = "loop"]
          /\ callers' = [callers EXCEPT ![c].pc = "done", ![c].result = "True"]
     ELSE /\ threads' = threads
          /\ callers' = [callers EXCEPT ![c].pc = "done", ![c].result = "RuntimeError"]
  /\ UNCHANGED << aroundCaller, training_thread, training_stop_event >>

\* stop_periodic_training() is called
Stop_Call(c) ==
  /\ callers[c].pc = "idle"
  /\ callers' = [callers EXCEPT ![c] = [CallerIdle EXCEPT !.pc = "stop_check", !.op = "stop"]]
  /\ UNCHANGED << aroundCaller, training_thread, training_stop_event, threads >>

\* lines 1000 and 1004
Stop_Check(c) ==
  /\ callers[c].pc = "stop_check"
  /\ callers' = [callers EXCEPT ![c] =
       IF TrainerAlive THEN [AtCheck(@) EXCEPT !.pc = "stop_set"]
       ELSE [AtCheck(@) EXCEPT !.pc = "done", !.result = "False"]]
  /\ UNCHANGED << aroundCaller, training_thread, training_stop_event, threads >>

\* line 1001
Stop_Set(c) ==
  /\ callers[c].pc = "stop_set"
  /\ training_stop_event' = TRUE
  /\ callers' = [callers EXCEPT ![c].pc = "stop_join"]
  /\ UNCHANGED << aroundCaller, training_thread, threads >>

\* lines 1002-1003: join(timeout=2.0) returns when the thread has ended or
\* when the two seconds have passed, whichever comes first
Stop_Join(c) ==
  /\ callers[c].pc = "stop_join"
  /\ callers' = [callers EXCEPT ![c].pc = "done", ![c].result = "True"]
  /\ UNCHANGED << aroundCaller, training_thread, training_stop_event, threads >>

\* The call has returned to its caller.
Call_Return(c) ==
  /\ callers[c].pc = "done"
  /\ callers' = [callers EXCEPT ![c] = CallerIdle]
  /\ UNCHANGED << aroundCaller, training_thread, training_stop_event, threads >>

\* ------------------------------------------------------- MemoryCore

\* No call made yet. `before` is the database as the call found it.
NoCall ==
  [op |-> "none", agent |-> "none", arg |-> <<>>, result |-> <<>>, before |-> <<>>,
   follows |-> "none"]

\* The tables of the database.
Database == [memory |-> memory_db, conversation |-> conversation_db, meta |-> memory_meta]

Called(op, a, arg, result) ==
  [op |-> op, agent |-> a, arg |-> arg, result |-> result, before |-> Database,
   follows |-> "none"]

\* Every variable but the tables and the last call.
aroundCore ==
  << online, use_ollama, memory, conversation_history, context_memory, recent_replies,
     custom_learned, definitions, triadic, last_resonance, stack, clock, calls, recorded,
     ollama, trainVars, triad, otherVars >>

\* A datetime is a day and the microseconds into it. datetime.isoformat()
\* leaves the fraction out when the microseconds are zero: the text is the
\* fixed-width date and time, then the fraction if any.
IsoFormat(dt) == IF dt.micro = 0 THEN <<dt.day>> ELSE <<dt.day, dt.micro>>

\* s < t on TEXT values: the first differing position decides, and a proper
\* prefix is less.
TextLess(s, t) ==
  \E k \in 1..(Len(t)) :
    /\ \A i \in 1..(k - 1) : i <= Len(s) /\ s[i] = t[i]
    /\ (k > Len(s) \/ s[k] < t[k])

\* json.dumps of a list of tags: '["A", "B"]', one token per bracket, quote,
\* tag and ", ".
RECURSIVE JsonItems(_)
JsonItems(tags) ==
  IF tags = <<>> THEN <<>>
  ELSE << "\"", Head(tags), "\"" >>
       \o (IF Tail(tags) = <<>> THEN <<>> ELSE <<", ">> \o JsonItems(Tail(tags)))

JsonDumps(tags) == <<"[">> \o JsonItems(tags) \o <<"]">>

\* json.loads(row[4]) if row[4] else []
JsonLoads(text) == SelectSeq(text, LAMBDA t : t \notin {"[", "]", "\"", ", "})

\* The dict that get_memories makes of a row (lines 207-215).
AsEntry(row) ==
  [ timestamp |-> row.timestamp, input |-> row.input, from |-> row.from_brain,
    importance |-> row.importance, context |-> JsonLoads(row.context) ]

\* Mutant: the row keeps the context column empty.
AsRowNoContext(entry) ==
  [ timestamp |-> entry.timestamp, input |-> entry.input, from_brain |-> entry.from,
    importance |-> entry.importance, context |-> <<>> ]

\* The row that add_memory inserts for an entry (lines 183-186): the five
\* columns, whatever other keys the entry has.
AsRow(entry) ==
  [ timestamp |-> entry.timestamp, input |-> entry.input, from_brain |-> entry.from,
    importance |-> entry.importance, context |-> JsonDumps(entry.context) ]

\* SELECT ... FROM memory_<agent> (lines 204-215)
GetMemories(rows) == [i \in DOMAIN rows |-> AsEntry(rows[i])]

\* The case folding of LIKE: the 26 letters of ASCII, no other.
Fold(t) ==
  CASE t = "HI" -> "hi"
    [] t = "LEARNED" -> "learned"
    [] OTHER -> t

\* text LIKE pattern: % stands for any run of characters, _ for any one, any
\* other character for itself in either case. A token is a character here.
RECURSIVE Like(_, _)
Like(text, pattern) ==
  IF pattern = <<>> THEN text = <<>>
  ELSE IF Head(pattern) = "%"
       THEN Like(text, Tail(pattern)) \/ (text # <<>> /\ Like(Tail(text), pattern))
       ELSE /\ text # <<>>
            /\ (Head(pattern) = "_" \/ Fold(Head(text)) = Fold(Head(pattern)))
            /\ Like(Tail(text), Tail(pattern))

\* Mutant: the two LIKE conditions joined by AND.
SearchHitBoth(row, query) ==
  /\ Like(row.input, <<"%">> \o query \o <<"%">>)
  /\ Like(row.context, <<"%">> \o query \o <<"%">>)

\* WHERE input LIKE ? OR context LIKE ?, with f"%{query}%" for both
SearchHit(row, query) ==
  \/ Like(row.input, <<"%">> \o query \o <<"%">>)
  \/ Like(row.context, <<"%">> \o query \o <<"%">>)

\* lines 257-265: the tuple made of a row found
AsResult(a, row) ==
  << row.timestamp, row.input, IF a = "Elaine" THEN "Processed by Elaine" ELSE "Processed by Carrie",
     row.importance, JsonLoads(row.context) >>

\* Mutant: a row as old as the cutoff goes too.
PrunedOrEqual(row, cutoff, importance_threshold) ==
  /\ ~TextLess(cutoff, row.timestamp)
  /\ row.importance <= importance_threshold

\* WHERE timestamp < ? AND importance <= ?
Pruned(row, cutoff, importance_threshold) ==
  /\ TextLess(row.timestamp, cutoff)
  /\ row.importance <= importance_threshold

TotalRows ==
  LET n(table) == Len(table["Elaine"]) + Len(table["Carrie"])
  IN n(memory_db) + n(conversation_db) + n(memory_meta)

\* add_memory(entry)
MC_AddMemory(a, entry) ==
  /\ TotalRows < MaxRows
  /\ memory_db' = [memory_db EXCEPT ![a] = Append(@, AsRow(entry))]
  /\ core' = Called("add_memory", a, entry, <<>>)
  /\ UNCHANGED << aroundCore, conversation_db, memory_meta >>

\* get_memories(), which tells what call it follows
MC_GetMemories(a) ==
  /\ core' = [core EXCEPT !.op = "get_memories", !.result = GetMemories(memory_db[a]),
                           !.follows = IF core.agent = a THEN core.op ELSE "none",
                           !.agent = a]
  /\ UNCHANGED << aroundCore, memory_db, conversation_db, memory_meta >>

\* add_conversation(entry)
MC_AddConversation(a, entry) ==
  /\ TotalRows < MaxRows
  /\ conversation_db' = [conversation_db EXCEPT ![a] = Append(@, entry)]
  /\ core' = Called("add_conversation", a, entry, <<>>)
  /\ UNCHANGED << aroundCore, memory_db, memory_meta >>

\* search_memory(query)
MC_SearchMemory(a, query) ==
  /\ core' = Called("search_memory", a, query,
       LET found == SelectSeq(memory_db[a], LAMBDA row : SearchHit(row, query))
       IN [i \in DOMAIN found |-> AsResult(a, found[i])])
  /\ UNCHANGED << aroundCore, memory_db, conversation_db, memory_meta >>

\* reversed(rows)
Reverse(rows) == [i \in 1..Len(rows) |-> rows[Len(rows) + 1 - i]]

\* Mutant: the rows are rendered as fetched, newest first.
RecentRowsNewestFirst(rows, count) ==
  SubSeq(Reverse(rows), 1, Min(count, Len(rows)))

\* lines 274-281: ORDER BY id DESC LIMIT count, then reversed(rows)
RecentRows(rows, count) ==
  Reverse(SubSeq(Reverse(rows), 1, Min(count, Len(rows))))

\* f"[{ts}] ({frm}) importance={imp}: {inp}": the four columns a line shows
Item(row) ==
  [ ts |-> row.timestamp, frm |-> row.from_brain, imp |-> row.importance, inp |-> row.input ]

\* lines 279-284: the request for a summary, then the lines joined by "\n"
SummaryPrompt(rows) ==
  [ head |-> "Create a concise, bulleted summary (3-6 bullets) capturing the key points, themes, and any high-importance items from these memories:",
    items |-> [i \in DOMAIN rows |-> Item(rows[i])] ]

\* What the call of query_ollama does: it returns a text or it raises.
SummaryOutcomes == {"returns", "raises"}

\* lines 285-288
SummaryText(outcome) ==
  IF outcome = "raises" THEN <<"Summary generation failed:", "(the exception)">>
  ELSE <<ModelText>>

\* summarize_recent_memories(count) at the datetime now: nothing is stored,
\* and None returned, on no rows
MC_Summarize(a, count, now, outcome) ==
  LET rows == RecentRows(memory_db[a], count)
      arg == [count |-> count, now |-> now, prompt |-> SummaryPrompt(rows)]
      summary == SummaryText(outcome)
  IN /\ IF rows = <<>>
        THEN /\ memory_meta' = memory_meta
             /\ core' = Called("summarize_recent_memories", a, arg, NoResult)
        ELSE /\ memory_meta' = [memory_meta EXCEPT ![a] =
                  Append(@, [timestamp |-> IsoFormat(now), summary |-> summary])]
             /\ core' = Called("summarize_recent_memories", a, arg, Str(summary))
     /\ UNCHANGED << aroundCore, memory_db, conversation_db >>

\* prune_memory(max_age_days, importance_threshold) at the datetime now
MC_PruneMemory(a, now, max_age_days, importance_threshold) ==
  LET cutoff == IsoFormat([now EXCEPT !.day = @ - max_age_days])
      gone(row) == Pruned(row, cutoff, importance_threshold)
      deleted == Len(SelectSeq(memory_db[a], gone))
  IN /\ memory_db' = [memory_db EXCEPT ![a] = SelectSeq(@, LAMBDA row : ~gone(row))]
     /\ core' = Called("prune_memory", a,
                       [now |-> now, max_age_days |-> max_age_days,
                        importance_threshold |-> importance_threshold], deleted)
     /\ UNCHANGED << aroundCore, conversation_db, memory_meta >>

\* ------------------------------------------------------- run_triad_agents

\* line 2180: the three worker threads, in the order they are started and joined
Workers == <<"web", "local", "ollama">>

\* No call made yet. `responses` is the list of line 2153 (one entry per worker
\* that has ended, named by its source); timed_out the workers whose join
\* returned on its timeout; shown what line 2188 has displayed; combined the
\* perspectives put into each concluder's prompt (line 2198).
RT_Idle ==
  [pc |-> "idle", at |-> 0, running |-> {}, responses |-> <<>>, timed_out |-> {},
   shown |-> <<>>, brain |-> "none", combined |-> [b \in Agents |-> <<>>]]

\* lines 2150-2182: a topic is given, the workers are started
RT_Call ==
  /\ triad.pc \in {"idle", "done"}
  /\ triad' = [RT_Idle EXCEPT !.pc = "join", !.at = 1, !.running = Range(Workers)]
  /\ UNCHANGED << pipeVars, ollama, trainVars, memory_meta, core, otherVars >>

\* lines 2161, 2169, 2176: a worker appends its perspective and ends, whatever
\* the calling thread is doing by then
RT_WorkerEnds(w) ==
  /\ w \in triad.running
  /\ triad' = [triad EXCEPT !.running = @ \ {w}, !.responses = Append(@, w)]
  /\ UNCHANGED << pipeVars, ollama, trainVars, memory_meta, core, otherVars >>

\* lines 2183-2184: t.join(timeout=30) returns: the worker has ended, or the
\* thirty seconds have passed and the worker goes on running
RT_Join ==
  /\ triad.pc = "join"
  /\ LET w == Workers[triad.at]
         t == IF w \in triad.running THEN [triad EXCEPT !.timed_out = @ \cup {w}] ELSE triad
     IN triad' = IF triad.at < Len(Workers)
                 THEN [t EXCEPT !.at = @ + 1]
                 ELSE [t EXCEPT !.pc = "show", !.at = 1]
  /\ UNCHANGED << pipeVars, ollama, trainVars, memory_meta, core, otherVars >>

\* lines 2187-2188: for r in responses, over the list as it is at each step
RT_Show ==
  /\ triad.pc = "show"
  /\ triad' = IF triad.at <= Len(triad.responses)
              THEN [triad EXCEPT !.shown = Append(@, triad.responses[triad.at]), !.at = @ + 1]
              ELSE [triad EXCEPT !.pc = "combine", !.at = 0, !.brain = "Elaine"]
  /\ UNCHANGED << pipeVars, ollama, trainVars, memory_meta, core, otherVars >>

\* lines 2192-2199: conclude_with builds the prompt from the responses
RT_Combine ==
  /\ triad.pc = "combine"
  /\ triad' = [triad EXCEPT !.pc = "conclude", !.combined[triad.brain] = triad.responses]
  /\ UNCHANGED << pipeVars, ollama, trainVars, memory_meta, core, otherVars >>

\* lines 2200-2207: the brain's process_input has returned (its steps are those
\* of PI_Call on the prompt); Carrie is asked after Elaine
RT_Conclude ==
  /\ triad.pc = "conclude"
  /\ triad' = IF triad.brain = "Elaine"
              THEN [triad EXCEPT !.pc = "combine", !.brain = "Carrie"]
              ELSE [triad EXCEPT !.pc = "done"]
  /\ UNCHANGED << pipeVars, ollama, trainVars, memory_meta, core, otherVars >>

\* ------------------------------------------------------- start_auto_conversation

\* Every variable but the call stack, the clock and the conversation loop's.
aroundAuto ==
  << online, use_ollama, storeVars, recent_replies, custom_learned, definitions, triadic,
     last_resonance, recorded, ollama, trainVars, triad, memory_meta, core, learner, watch >>

\* No auto-conversation has been started.
AC_Idle == [active |-> FALSE, pc |-> "none", topic |-> <<>>, elaine_response |-> <<>>]

\* The conversation_loop thread is inside a call of process_input.
AutoInCall == auto.pc \in {"in_elaine", "in_carrie"}

\* lines 2065-2083: both agents launched, the topic given, the thread started
AC_Start(topic) ==
  /\ Agents \subseteq online
  /\ auto.pc \in {"none", "done"}
  /\ auto' = [active |-> TRUE, pc |-> "while", topic |-> topic, elaine_response |-> <<>>]
  /\ UNCHANGED << aroundAuto, stack, clock, calls >>

\* lines 2085-2087: stop_auto_conversation
AC_Stop ==
  /\ auto.active
  /\ auto' = [auto EXCEPT !.active = FALSE]
  /\ UNCHANGED << aroundAuto, stack, clock, calls >>

\* line 2074: while self.conversation_active
AC_While ==
  /\ auto.pc = "while"
  /\ auto' = [auto EXCEPT !.pc = IF auto.active THEN "elaine" ELSE "done"]
  /\ UNCHANGED << aroundAuto, stack, clock, calls >>

\* The thread calls process_input(message, from_brain) on agent a.
AC_Call(from, to, a, message, from_brain, limit) ==
  /\ auto.pc = from
  /\ stack = <<>>
  /\ calls < limit
  /\ calls' = calls + 1
  /\ clock' = clock + 1
  /\ stack' = << NewFrame(a, message, from_brain, clock + 1) >>
  /\ auto' = [auto EXCEPT !.pc = to]
  /\ UNCHANGED aroundAuto

\* line 2075: self.elaine.process_input(topic, from_brain="Carrie")
AC_CallElaine(limit) == AC_Call("elaine", "in_elaine", "Elaine", auto.topic, "Carrie", limit)

\* lines 2075-2079: the call returns; sleep(45); if not conversation_active: break
AC_ElaineReturns ==
  /\ auto.pc = "in_elaine"
  /\ Len(stack) = 1 /\ At("return")
  /\ stack' = <<>>
  /\ auto' = [auto EXCEPT !.elaine_response = Top.response, !.pc = "sleep"]
  /\ UNCHANGED << aroundAuto, clock, calls >>

AC_Slept ==
  /\ auto.pc = "sleep"
  /\ auto' = [auto EXCEPT !.pc = IF auto.active THEN "carrie" ELSE "done"]
  /\ UNCHANGED << aroundAuto, stack, clock, calls >>

\* line 2080: self.carrie.process_input(elaine_response, from_brain="Elaine")
AC_CallCarrie(limit) ==
  AC_Call("carrie", "in_carrie", "Carrie", auto.elaine_response, "Elaine", limit)

\* lines 2080-2082: the call returns; sleep(45); back to the loop test
AC_CarrieReturns ==
  /\ auto.pc = "in_carrie"
  /\ Len(stack) = 1 /\ At("return")
  /\ stack' = <<>>
  /\ auto' = [auto EXCEPT !.pc = "while"]
  /\ UNCHANGED << aroundAuto, clock, calls >>

\* ------------------------------------------------------- search_and_learn

\* Every variable but the memory table, its mirror, the clock and the worker's.
aroundLearner ==
  << online, use_ollama, conversation_db, conversation_history, context_memory,
     recent_replies, custom_learned, definitions, triadic, last_resonance, stack, calls,
     recorded, ollama, trainVars, triad, memory_meta, core, auto, watch >>

SL_Idle == [pc |-> "none", agent |-> "none", topic |-> <<>>]

\* 'analytical' in personality.lower(): Elaine is "Analytical & Logical",
\* Carrie "Creative & Intuitive".
LearningTag(a) == IF a = "Elaine" THEN "ANALYTICAL_LEARNING" ELSE "CREATIVE_LEARNING"

\* The entry get_memories gives for the row save_insight inserts (lines
\* 1358-1375): the topic, importance 8, the tags of the topic and two more.
Insight(a, topic, ts) ==
  [ timestamp |-> ts, input |-> topic, from |-> a, importance |-> 8,
    context |-> ExtractContext(topic) \o <<"LEARNED_KNOWLEDGE", LearningTag(a)>> ]

\* BrainInterface.search_and_learn, lines 1801-1818: the do_learning thread
\* is started
SL_Start(a, topic) ==
  /\ a \in online
  /\ learner.pc \in {"none", "done"}
  /\ learner' = [pc |-> "search", agent |-> a, topic |-> topic]
  /\ UNCHANGED << aroundLearner, memory_db, memory, clock >>

\* BrainAI.search_and_learn, lines 1304-1356: the search and the summary
SL_Search ==
  /\ learner.pc = "search"
  /\ learner' = [learner EXCEPT !.pc = "save"]
  /\ UNCHANGED << aroundLearner, memory_db, memory, clock >>

\* lines 1369-1375: save_insight
SL_SaveInsight ==
  /\ learner.pc = "save"
  /\ clock' = clock + 1
  /\ memory_db' = [memory_db EXCEPT ![learner.agent] =
                     Append(@, Insight(learner.agent, learner.topic, clock + 1))]
  /\ learner' = [learner EXCEPT !.pc = "reload"]
  /\ UNCHANGED << aroundLearner, memory >>

\* line 1378: self.memory = self.memory_core.get_memories()
SL_Reload ==
  /\ learner.pc = "reload"
  /\ memory' = [memory EXCEPT ![learner.agent] = memory_db[learner.agent]]
  /\ learner' = [learner EXCEPT !.pc = "done"]
  /\ UNCHANGED << aroundLearner, memory_db, clock >>

\* ------------------------------------------------------- sync_brains

\* if memory['importance'] >= 7
SyncImportance == 7

\* Mutant: every entry of the other agent's list is copied, important or not.
SyncedAll(a) ==
  LET theirs == memory[Other(a)]
  IN memory_db[a] \o [i \in DOMAIN theirs |-> AsEntry(AsRow(theirs[i]))]

\* Agent a's memory table after the two loops (lines 2101-2106): add_memory
\* has inserted the entries of the other agent's list that have importance
\* >= 7, in the order of the list; the table is shown as get_memories reads it.
Synced(a) ==
  LET theirs == SelectSeq(memory[Other(a)], LAMBDA entry : entry.importance >= SyncImportance)
  IN memory_db[a] \o [i \in DOMAIN theirs |-> AsEntry(AsRow(theirs[i]))]

\* MainControlInterface.sync_brains, lines 2096-2109
MCI_SyncBrains ==
  /\ Agents \subseteq online
  /\ stack = <<>>
  /\ memory_db' = [a \in Agents |-> Synced(a)]
  /\ memory' = [a \in Agents |-> Synced(a)]
  /\ core' = Called("sync_brains", "both", memory, <<>>)
  /\ UNCHANGED << online, use_ollama, conversation_db, conversation_history, context_memory,
                  recent_replies, custom_learned, definitions, triadic, last_resonance, stack,
                  clock, calls, recorded, ollama, trainVars, triad, memory_meta, otherVars >>

\* ------------------------------------------------------- toggle_watch

\* Every variable but the watchers'.
aroundWatch ==
  << pipeVars, ollama, trainVars, triad, memory_meta, core, auto, learner >>

\* lines 626-628: watch_enabled = False, watch_thread = None, watched_path =
\* None; threads holds the Thread objects toggle_watch has created, each with
\* the project_path it was given.
TW_Idle == [watch_enabled |-> FALSE, watched_path |-> "None", watch_thread |-> 0, threads |-> <<>>]

\* watch_thread.is_alive()
WatcherAlive(w) == w.watch_thread # 0 /\ w.threads[w.watch_thread].pc # "done"

\* lines 1767-1779: watching is off and the dialog gives a folder
TW_ToggleOn(a, path) ==
  /\ a \in online
  /\ ~watch[a].watch_enabled
  /\ LET w == [watch[a] EXCEPT !.watch_enabled = TRUE, !.watched_path = path]
     IN IF WatcherAlive(w)
        THEN watch' = [watch EXCEPT ![a] = w]
        ELSE /\ Len(w.threads) < MaxWatchers
             /\ watch' = [watch EXCEPT ![a] =
                  [w EXCEPT !.threads = Append(@, [project_path |-> path, pc |-> "scan"]),
                            !.watch_thread = Len(w.threads) + 1]]
  /\ UNCHANGED aroundWatch

\* lines 1780-1783: watching is on
TW_ToggleOff(a) ==
  /\ a \in online
  /\ watch[a].watch_enabled
  /\ watch' = [watch EXCEPT ![a] = [@ EXCEPT !.watch_enabled = FALSE, !.watched_path = "None"]]
  /\ UNCHANGED aroundWatch

\* One step of watcher thread i of agent a, from pc `from` to pc `to`.
WP_Step(a, i, from, to) ==
  /\ i \in DOMAIN watch[a].threads
  /\ watch[a].threads[i].pc = from
  /\ watch' = [watch EXCEPT ![a].threads[i].pc = to]
  /\ UNCHANGED aroundWatch

\* watch_project, lines 657-670: the first scan of project_path
WP_Scan(a, i) == WP_Step(a, i, "scan", "while")

\* line 672: while self.watch_enabled
WP_While(a, i) ==
  WP_Step(a, i, "while", IF watch[a].watch_enabled THEN "sleep" ELSE "exiting")

\* lines 673-676: time.sleep(5), then if not self.watch_enabled: break
WP_Woke(a, i) ==
  WP_Step(a, i, "sleep", IF watch[a].watch_enabled THEN "walk" ELSE "exiting")

\* lines 682-: os.walk(project_path), the folder the thread was started with
WP_Walk(a, i) == WP_Step(a, i, "walk", "while")

\* The loop is left and the thread ends.
WP_Exit(a, i) == WP_Step(a, i, "exiting", "done")


\* ------------------------------------------------------- specification

InitTriadic == [fast |-> Half, medium |-> Half, slow |-> Half]

\* BrainAI.__init__ on a database that holds these entries and turns.
InitStores(entries, turns) ==
  /\ online = {}
  /\ use_ollama = [a \in Agents |-> TRUE]
  /\ memory_db = entries
  /\ conversation_db = turns
  /\ memory = entries
  /\ conversation_history = turns
  /\ context_memory = [a \in Agents |-> <<>>]
  /\ recent_replies = [a \in Agents |-> <<>>]
  /\ custom_learned = [a \in Agents |-> <<>>]
  /\ definitions = [a \in Agents |-> <<>>]
  /\ triadic = [a \in Agents |-> InitTriadic]
  /\ last_resonance = [a \in Agents |-> OverallCubed(InitTriadic)]
  /\ stack = <<>>
  /\ clock = 0
  /\ calls = 0
  /\ recorded = [a \in Agents |-> <<>>]

\* A new database.
InitPipeline == InitStores([a \in Agents |-> <<>>], [a \in Agents |-> <<>>])

InitBackground ==
  /\ ollama = QO_Idle
  /\ training_thread = 0
  /\ training_stop_event = FALSE
  /\ training_lock = 0
  /\ training_log = <<>>
  /\ threads = <<>>
  /\ callers = [c \in Callers |-> CallerIdle]
  /\ triad = RT_Idle
  /\ memory_meta = [a \in Agents |-> <<>>]
  /\ core = NoCall
  /\ auto = AC_Idle
  /\ learner = SL_Idle
  /\ watch = [a \in Agents |-> TW_Idle]

Init == InitPipeline /\ InitBackground

\* The steps of a call of process_input in progress; `replies` is what the
\* model backend may answer and `bank` the suggestions random.choice draws from.
PI_Step(replies, bank) ==
  \/ PI_TeamStatus
  \/ PI_Learn
  \/ PI_LearnBadFormat
  \/ PI_DefineStore
  \/ PI_DefineLookup
  \/ PI_CustomLearned
  \/ PI_Remember
  \/ PI_UpdateHarmony
  \/ PI_Delegate
  \/ PI_DelegateOffline
  \/ PI_ReplyFixed
  \/ PI_ReplyOllama(replies)
  \/ PI_Reselect
  \/ PI_Record(bank)
  \/ PI_Persist
  \/ PI_Return

\* A session in which the user talks to Elaine, Carrie being launched or not:
\* every path of process_input, the model backend in use (the default).
Next ==
  \/ \E a \in Agents : Launch(a)
  \/ \E message \in Messages : PI_Call("Elaine", message, MaxCalls)
  \/ PI_Step(OllamaReplies, Suggestions)

Spec == Init /\ [][Next]_vars

\* The steps of a call that runs the general pipeline with the model backend.
PI_GeneralStep(replies, bank) ==
  \/ PI_Remember
  \/ PI_UpdateHarmony
  \/ PI_ReplyOllama(replies)
  \/ PI_Reselect
  \/ PI_Record(bank)
  \/ PI_Persist
  \/ PI_Return

OneReply == { <<"(a text generated by the model)">> }

OneSuggestion == { "Would you like to explore this idea further?" }

\* A long session of one agent on one plain message: the recent-reply window
\* fills up and evicts.
NextWindow ==
  \/ Launch("Elaine")
  \/ \E message \in WindowMessages : PI_Call("Elaine", message, MaxWindowCalls)
  \/ PI_GeneralStep(OneReply, OneSuggestion)

SpecWindow == Init /\ [][NextWindow]_vars

\* A session of one agent on important and on creative messages: the
\* resonance climbs from 0.5 past 0.65.
NextGate ==
  \/ Launch("Elaine")
  \/ \E message \in ImportantMessages : PI_Call("Elaine", message, MaxGateCalls)
  \/ \E message \in OpenGateMessages : PI_Call("Elaine", message, MaxOpenGateCalls)
  \/ PI_GeneralStep(OneReply, OneSuggestion)

SpecGate == Init /\ [][NextGate]_vars

\* query_ollama called again and again, on every outcome of its requests and
\* every body.
NextOllama ==
  \/ \E stream \in BOOLEAN : QO_Call(stream)
  \/ \E outcome \in PostOutcomes : QO_Post(outcome)
  \/ \E outcome \in PostOutcomes : QO_Retry(outcome)
  \/ \E body \in JsonBodies : QO_Json(body)
  \/ \E line \in LineKinds : QO_Line(line)
  \/ \E how \in StreamEnds : QO_StreamEnd(how)
  \/ QO_Except

SpecOllama == Init /\ [][NextOllama]_vars

\* The steps of a trainer thread.
T_Pass(t) ==
  \/ T_LoopCheck(t)
  \/ T_Slice(t)
  \/ T_Acquire(t)
  \/ T_FastRead(t)
  \/ T_FastWrite(t)
  \/ T_MediumRead(t)
  \/ T_MediumWrite(t)
  \/ T_SlowRead(t)
  \/ T_SlowWrite(t)
  \/ T_LogSnippets(t)
  \/ T_LogPeriodic(t)
  \/ T_WaitElapsed(t)

\* The steps of a call of start_periodic_training in progress.
Start_Step(c) ==
  \/ Start_Check(c)
  \/ Start_Clear(c)
  \/ Start_Create(c)
  \/ Start_Start(c)

\* The steps of a call of stop_periodic_training in progress.
Stop_Step(c) ==
  \/ Stop_Check(c)
  \/ Stop_Set(c)
  \/ Stop_Join(c)

\* The agent is constructed on a database that holds one turn of an earlier
\* session (lines 619-621 load the mirrors from the store).
EarlierMessage == <<"urgent", "project", "stl">>

EarlierEntry ==
  MemoryEntry(NewFrame(Trained, EarlierMessage, "None", 0),
              CalculateImportance(EarlierMessage), ExtractContext(EarlierMessage))

EarlierTurn ==
  [ timestamp |-> 0, input |-> EarlierMessage,
    response |-> <<ModelText, SuggestionMarker, "Would you like to explore this idea further?">>,
    from |-> "None" ]

InitRestart ==
  /\ InitStores([a \in Agents |-> IF a = Trained THEN <<EarlierEntry>> ELSE <<>>],
                [a \in Agents |-> IF a = Trained THEN <<EarlierTurn>> ELSE <<>>])
  /\ InitBackground

\* Learning is switched on and off, one call after the other, the trainer
\* threads running meanwhile.
NextTrainer ==
  \/ Launch(Trained)
  \/ \E c \in Callers : Trained \in online /\ CallersIdle /\ Start_Call(c)
  \/ \E c \in Callers : Trained \in online /\ CallersIdle /\ Stop_Call(c)
  \/ \E c \in Callers : Start_Step(c)
  \/ \E c \in Callers : Stop_Step(c)
  \/ \E c \in Callers : Call_Return(c)
  \/ \E t \in 1..MaxThreads : T_Pass(t)
  \/ \E t \in 1..MaxThreads : T_WaitSet(t)

SpecTrainer == InitRestart /\ [][NextTrainer]_vars

\* start and stop are called from two threads at once, on an agent with no
\* stored conversation: no caller waits for the other's call to return, and a
\* training pass finds no snippet. The training interval does not elapse
\* meanwhile.
NextRace ==
  \/ Launch(Trained)
  \/ \E c \in Callers : Trained \in online /\ Start_Call(c)
  \/ \E c \in Callers : Trained \in online /\ Stop_Call(c)
  \/ \E c \in Callers : Start_Step(c)
  \/ \E c \in Callers : Stop_Step(c)
  \/ \E c \in Callers : Call_Return(c)
  \/ \E t \in 1..MaxThreads : T_LoopCheck(t)
  \/ \E t \in 1..MaxThreads : T_Slice(t)
  \/ \E t \in 1..MaxThreads : T_LogPeriodic(t)
  \/ \E t \in 1..MaxThreads : T_WaitSet(t)

SpecRace == Init /\ [][NextRace]_vars

\* The interpreter schedules every thread that can run: a trainer thread that
\* can take a step, or whose wait can end on the stop event, does so in the end.
FairTrainer ==
  \A t \in 1..MaxThreads : WF_vars(T_Pass(t)) /\ WF_vars(T_WaitSet(t))

SpecTrainerFair == SpecTrainer /\ FairTrainer

\* run_triad_agents is called, again once it has returned; its workers end
\* when they end.
NextTriad ==
  \/ RT_Call
  \/ \E w \in Range(Workers) : RT_WorkerEnds(w)
  \/ RT_Join
  \/ RT_Show
  \/ RT_Combine
  \/ RT_Conclude

SpecTriad == Init /\ [][NextTriad]_vars

\* Commands, and messages that match several of them once "team" or "hi" is
\* a learned trigger; "hi" is learned in either case, with two replies.
CommandMessages ==
  { <<"team">>,
    <<"learn:", "team", "=>", "yo">>,
    <<"learn:", "HI", "=>", "yo">>,
    <<"learn:", "hi", "=>", "yo2">>,
    <<"learn:", "hello", "=>", "hey">>,
    <<"learn:", "hi">>,
    <<"define", "hi", ":", "bar">>,
    <<"define", "hi">>,
    <<"HI", "hello">>,
    <<"hello">> }

\* A session of commands and plain messages to one agent.
NextCommands ==
  \/ Launch("Elaine")
  \/ \E message \in CommandMessages : PI_Call("Elaine", message, MaxCommandCalls)
  \/ PI_TeamStatus
  \/ PI_Learn
  \/ PI_LearnBadFormat
  \/ PI_DefineStore
  \/ PI_DefineLookup
  \/ PI_CustomLearned
  \/ PI_GeneralStep(OneReply, OneSuggestion)

SpecCommands == Init /\ [][NextCommands]_vars

\* Definitions whose terms are a plugin key and a template word, and messages
\* that several reply sources match.
SourceMessages ==
  { <<"define", "fuzzy", ":", "bar">>,
    <<"define", "how", ":", "baz">>,
    <<"fuzzy", "hello">>,
    <<"how", "do", "i", "foo">>,
    <<"fuzzy", "how", "do", "i">>,
    <<"hello">> }

\* A session of one agent on its reply sources.
NextSources ==
  \/ Launch("Elaine")
  \/ \E message \in SourceMessages : PI_Call("Elaine", message, MaxSourceCalls)
  \/ PI_DefineStore
  \/ PI_ReplyFixed
  \/ PI_GeneralStep(OneReply, OneSuggestion)

SpecSources == Init /\ [][NextSources]_vars

\* What the user talks about.
Topics == { <<"hello">> }

\* A session with both agents in which the user sends a message, starts and
\* stops an auto-conversation and has one agent search and learn, once.
NextBackground ==
  \/ \E a \in Agents : Launch(a)
  \/ \E message \in Topics : ~AutoInCall /\ PI_Call("Elaine", message, MaxBackgroundCalls)
  \/ \E topic \in Topics : stack = <<>> /\ AC_Start(topic)
  \/ (stack = <<>> \/ AutoInCall) /\ AC_Stop
  \/ AC_While
  \/ AC_CallElaine(MaxBackgroundCalls)
  \/ AC_ElaineReturns
  \/ AC_Slept
  \/ AC_CallCarrie(MaxBackgroundCalls)
  \/ AC_CarrieReturns
  \/ \E a \in Agents, topic \in Topics :
       (stack = <<>> \/ AutoInCall) /\ learner.pc = "none" /\ SL_Start(a, topic)
  \/ SL_Search
  \/ SL_SaveInsight
  \/ SL_Reload
  \/ PI_Remember
  \/ PI_UpdateHarmony
  \/ PI_ReplyOllama(OneReply)
  \/ PI_Reselect
  \/ PI_Record(OneSuggestion)
  \/ PI_Persist
  \/ ~AutoInCall /\ PI_Return

SpecBackground == Init /\ [][NextBackground]_vars

\* Datetimes on the second and off it.
Datetime(day, micro) == [day |-> day, micro |-> micro]

\* Entries as process_input makes them, one with a key that has no column.
CoreEntries ==
  { [ timestamp |-> IsoFormat(Datetime(1, 0)), input |-> <<"HI", "there">>, from |-> "User",
      importance |-> 3, context |-> <<>> ],
    [ timestamp |-> IsoFormat(Datetime(1, 5)), input |-> <<"hello">>, from |-> "User",
      importance |-> 3, context |-> <<"LEARNED">>, learned |-> <<"hello", "yo">> ],
    [ timestamp |-> IsoFormat(Datetime(2, 0)), input |-> <<"hi">>, from |-> "Carrie",
      importance |-> 5, context |-> <<"3D_MODELING", "PROGRAMMING">> ],
    [ timestamp |-> IsoFormat(Datetime(1, 0)), input |-> <<"stl">>, from |-> "User",
      importance |-> 5, context |-> <<"3D_MODELING">> ] }

CoreQueries ==
  { <<"hi">>, <<"hi", "there">>, <<"learned">>, <<"_">>, <<"%">> }

CoreNows == { Datetime(3, 0), Datetime(3, 5) }

CoreAges == { 2 }

CoreThresholds == { 3, 5 }

\* summarize_recent_memories(self, count=20, ...)
DefaultCount == 20

\* The functions of MemoryCore called one after another on the two agents'
\* tables.
NextCore ==
  \/ \E a \in Agents, entry \in CoreEntries : MC_AddMemory(a, entry)
  \/ \E a \in Agents : MC_GetMemories(a)
  \/ \E a \in Agents : MC_AddConversation(a, EarlierTurn)
  \/ \E a \in Agents, query \in CoreQueries : MC_SearchMemory(a, query)
  \/ \E a \in Agents, now \in CoreNows :
       TotalRows < MaxRows /\ MC_Summarize(a, DefaultCount, now, "returns")
  \/ \E a \in Agents, now \in CoreNows, age \in CoreAges, threshold \in CoreThresholds :
       MC_PruneMemory(a, now, age, threshold)

SpecCore == Init /\ [][NextCore]_vars

\* Memory entries of one agent at three times.
SummaryEntries ==
  { [ timestamp |-> IsoFormat(Datetime(d, 0)), input |-> <<"hello">>, from |-> "User",
      importance |-> 3, context |-> <<>> ] : d \in 1..3 }

SummaryCounts == 1..MaxRows

\* Memories are added to Elaine's table and summarized, the backend
\* answering or raising.
NextSummaries ==
  \/ \E entry \in SummaryEntries : MC_AddMemory("Elaine", entry)
  \/ \E a \in Agents, count \in SummaryCounts, outcome \in SummaryOutcomes :
       /\ Len(memory_meta[a]) < MaxSummaries
       /\ MC_Summarize(a, count, Datetime(4, 0), outcome)

SpecSummaries == Init /\ [][NextSummaries]_vars

\* A plain message, an important one, a definition, a learned reply and a
\* delegation.
SyncMessages ==
  { <<"hello">>,
    <<"urgent", "project", "stl">>,
    <<"define", "foo", ":", "bar">>,
    <<"learn:", "hi", "=>", "yo">>,
    <<"delegate", "carrie", "hello">> }

\* A session in which the user talks to both agents and syncs them.
NextSync ==
  \/ \E a \in Agents : Launch(a)
  \/ \E a \in Agents, message \in SyncMessages : PI_Call(a, message, MaxSyncCalls)
  \/ PI_Learn
  \/ PI_DefineStore
  \/ PI_Delegate
  \/ PI_DelegateOffline
  \/ PI_GeneralStep(OneReply, OneSuggestion)
  \/ /\ Len(memory_db["Elaine"]) + Len(memory_db["Carrie"]) < MaxSyncRows
     /\ MCI_SyncBrains

SpecSync == Init /\ [][NextSync]_vars

\* Texts of up to MaxWords words: keywords, one in capitals, one inside a
\* longer word, and a word that is no keyword.
ScoredWords == {"URGENT", "helpful", "project", "stl", "hello"}

ScoredTexts == UNION {[1..n -> ScoredWords] : n \in 0..MaxWords}

\* _calculate_importance(text)
CI_Call(text) ==
  /\ core' = Called("_calculate_importance", "Elaine", text, CalculateImportance(text))
  /\ UNCHANGED << aroundCore, memory_db, conversation_db, memory_meta >>

NextImportance == \E text \in ScoredTexts : CI_Call(text)

SpecImportance == Init /\ [][NextImportance]_vars

\* An important message the agent hands to the other agent, who is not
\* launched: the resonance is updated with input resonance 1.0 and no turn
\* is stored.
WarmMessages == { <<"delegate", "carrie", "urgent", "project", "stl">> }

\* update_harmony of the call in progress, one attribute access at a time.
UH_Steps ==
  \/ UH_FastRead
  \/ UH_FastWrite
  \/ UH_MediumRead
  \/ UH_MediumReadFast
  \/ UH_MediumWrite
  \/ UH_SlowRead
  \/ UH_SlowReadMedium
  \/ UH_SlowWrite
  \/ UH_OverallFast
  \/ UH_OverallMedium
  \/ UH_Overall

\* A session of one agent on a database with an earlier turn: MaxWarmCalls
\* important messages are handed over, then learning is switched on and
\* MaxTrainedCalls more messages are handed over while the trainer runs.
NextResonance ==
  \/ Launch(Trained)
  \/ \E message \in WarmMessages :
       CallersIdle /\ PI_Call(Trained, message, MaxWarmCalls + MaxTrainedCalls)
  \/ PI_Remember
  \/ UH_Steps
  \/ PI_DelegateOffline
  \/ PI_Return
  \/ /\ stack = <<>>
     /\ calls >= MaxWarmCalls
     /\ training_thread = 0
     /\ Start_Call("interface")
  \/ Start_Step("interface")
  \/ Call_Return("interface")
  \/ \E t \in 1..MaxThreads : T_Pass(t)

SpecResonance == InitRestart /\ [][NextResonance]_vars

\* A plain message (importance 5, the least there is) and an important one,
\* each cut short after the resonance update (Carrie is not launched).
FloorMessages ==
  { <<"delegate", "carrie", "hello">>,
    <<"delegate", "carrie", "urgent", "project", "stl">> }

\* A session of one agent on a database with an earlier turn: learning is
\* switched on at any time, and messages are handed over before the trainer
\* runs and between any two steps of its passes.
NextFloor ==
  \/ Launch(Trained)
  \/ \E message \in FloorMessages : CallersIdle /\ PI_Call(Trained, message, MaxFloorCalls)
  \/ PI_Remember
  \/ PI_UpdateHarmony
  \/ PI_DelegateOffline
  \/ PI_Return
  \/ /\ stack = <<>>
     /\ training_thread = 0
     /\ Start_Call("interface")
  \/ Start_Step("interface")
  \/ Call_Return("interface")
  \/ \E t \in 1..MaxThreads : T_Pass(t)

SpecFloor == InitRestart /\ [][NextFloor]_vars

\* Delegations: a plain one, one whose command names a delegation again, and
\* one written with a capital letter that names both agents.
DelegationMessages ==
  { <<"delegate", "carrie", "hello">>,
    <<"delegate", "carrie", "delegate", "elaine", "hello">>,
    <<"Delegate", "carrie", "elaine", "hello">>,
    <<"hello">> }

\* A session in which the user sends delegations to either agent.
NextDelegation ==
  \/ \E a \in Agents : Launch(a)
  \/ \E a \in Agents, message \in DelegationMessages :
       PI_Call(a, message, MaxDelegationCalls)
  \/ PI_Delegate
  \/ PI_DelegateOffline
  \/ PI_DelegateOverflow
  \/ PI_Raise
  \/ PI_GeneralStep(OneReply, OneSuggestion)

SpecDelegation == Init /\ [][NextDelegation]_vars

\* The folders the dialog offers.
Folders == {"folder A", "folder B"}

\* Watching is toggled on and off while the watcher threads run.
NextWatch ==
  \/ \E a \in Agents : Launch(a)
  \/ \E a \in Agents, path \in Folders : TW_ToggleOn(a, path)
  \/ \E a \in Agents : TW_ToggleOff(a)
  \/ \E a \in Agents, i \in 1..MaxWatchers :
       \/ WP_Scan(a, i)
       \/ WP_While(a, i)
       \/ WP_Woke(a, i)
       \/ WP_Walk(a, i)
       \/ WP_Exit(a, i)

SpecWatch == Init /\ [][NextWatch]_vars

\* ------------------------------------------------------- properties

TurnsAt(a, ts) == {i \in DOMAIN conversation_db[a] : conversation_db[a][i].timestamp = ts}

EntriesAt(a, ts) == {i \in DOMAIN memory_db[a] : memory_db[a][i].timestamp = ts}

\* The message is answered by a special command or a learned trigger.
ShortCircuited(a, message) == IsCommand(message) \/ LearnedHit(a, message) # 0

\* The message runs the general pipeline to its end: no short-circuit and no
\* delegation to the other agent.
RunsToEnd(a, message) ==
  ~ShortCircuited(a, message) /\ DelegateTarget(a, message) = "none"

\* C1 as stated: whenever process_input returns a reply, whatever the path, a
\* ConversationTurn for the message is in the processing agent's store.
C1_EveryReturnPersisted ==
  At("return") =>
    \E i \in TurnsAt(Top.agent, Top.timestamp) :
      conversation_db[Top.agent][i].input = Top.message

\* C1 amended: a call that runs the general pipeline to its end returns with
\* exactly one ConversationTurn for the message, carrying the returned reply,
\* in the processing agent's store; a short-circuited or delegating call
\* returns with none.
C1_PipelineReturnPersisted ==
  At("return") =>
    LET a == Top.agent
        turns == TurnsAt(a, Top.timestamp)
    IN IF RunsToEnd(a, Top.message)
       THEN /\ Cardinality(turns) = 1
            /\ \A i \in turns :
                 /\ conversation_db[a][i].input = Top.message
                 /\ conversation_db[a][i].response = Top.response
                 /\ i = Len(conversation_db[a])
       ELSE turns = {}

C1_Witness ==
  /\ At("return")
  /\ Top.message = <<"hello">>
  /\ Top.agent = "Elaine"
  /\ Len(conversation_db["Elaine"]) = 2
  /\ conversation_db["Elaine"][2].response = Top.response

\* C2 as stated: for each processed message both the MemoryEntry and the
\* ConversationTurn are written before process_input returns.
C2_BothWrittenBeforeReturn ==
  At("return") =>
    /\ EntriesAt(Top.agent, Top.timestamp) # {}
    /\ TurnsAt(Top.agent, Top.timestamp) # {}

Increasing(s) == \A i, j \in DOMAIN s : i < j => s[i].timestamp < s[j].timestamp

\* C2 amended: for a message that runs the general pipeline to its end, the
\* MemoryEntry is in the store while the ConversationTurn is not yet (from
\* the resonance update to the persist step), and both are in the store when
\* the reply is returned; every stored turn has its entry; entries and turns
\* are stored in message order.
C2_EntryBeforeTurn ==
  /\ \A a \in Agents :
       /\ \A i \in DOMAIN conversation_db[a] :
            \E j \in DOMAIN memory_db[a] :
              /\ memory_db[a][j].timestamp = conversation_db[a][i].timestamp
              /\ memory_db[a][j].input = conversation_db[a][i].input
       /\ Increasing(memory_db[a])
       /\ Increasing(conversation_db[a])
  /\ \A k \in DOMAIN stack :
       LET f == stack[k]
       IN /\ f.pc \in {"resonance", "respond", "reselect", "record", "persist"} =>
               /\ EntriesAt(f.agent, f.timestamp) # {}
               /\ TurnsAt(f.agent, f.timestamp) = {}
          /\ (f.pc = "return" /\ RunsToEnd(f.agent, f.message)) =>
               /\ EntriesAt(f.agent, f.timestamp) # {}
               /\ TurnsAt(f.agent, f.timestamp) # {}

C2_Witness ==
  /\ At("return")
  /\ RunsToEnd(Top.agent, Top.message)
  /\ Len(memory_db[Top.agent]) = 2
  /\ Len(conversation_db[Top.agent]) = 2
  /\ memory_db[Top.agent][2].timestamp = Top.timestamp
  /\ conversation_db[Top.agent][2].timestamp = Top.timestamp

\* C3 as stated: every call of process_input creates one MemoryEntry for the
\* message in the processing agent's store, whichever path it takes.
C3_EveryCallOneEntry ==
  At("return") => Cardinality(EntriesAt(Top.agent, Top.timestamp)) = 1

\* The paths that store nothing: team status, a learn: without "=>", and a
\* reply from a learned trigger.
StoresNoEntry(a, message) ==
  \/ IsTeam(message)
  \/ (IsLearn(message) /\ ~HasTok(Tail(message), "=>"))
  \/ (~IsCommand(message) /\ LearnedHit(a, message) # 0)

\* C3 amended: a call creates exactly one MemoryEntry for the message in the
\* processing agent's store when the message is a well-formed learn:, a
\* define, or enters the general pipeline, and none when it is a team-status
\* phrase, a learn: without "=>" or is answered by a learned trigger.
C3_OneEntryUnlessShortReply ==
  At("return") =>
    LET a == Top.agent
        entries == EntriesAt(a, Top.timestamp)
    IN IF StoresNoEntry(a, Top.message)
       THEN entries = {}
       ELSE /\ Cardinality(entries) = 1
            /\ \A i \in entries : memory_db[a][i].input = Top.message

C3_Witness ==
  /\ At("return")
  /\ IsLearn(Top.message)
  /\ HasTok(Tail(Top.message), "=>")
  /\ Cardinality(EntriesAt(Top.agent, Top.timestamp)) = 1
  /\ memory_db[Top.agent][Len(memory_db[Top.agent])].importance = 9

\* C4: the recent-reply window holds at most 6 replies, and they are the most
\* recently recorded replies in recording order (the oldest is evicted first).
C4_WindowIsLastSix ==
  \A a \in Agents :
    /\ Len(recent_replies[a]) <= 6
    /\ recent_replies[a] = LastN(recorded[a], 6)

\* Eight replies recorded, the first evicted by the seventh, and the eighth
\* equal to the first: permitted again.
C4_Witness ==
  /\ Len(recorded["Elaine"]) = 8
  /\ recorded["Elaine"][8] = recorded["Elaine"][1]
  /\ \A i \in 2..7 : recorded["Elaine"][i] # recorded["Elaine"][1]
  /\ Len(recent_replies["Elaine"]) = 6
  /\ recent_replies["Elaine"][6] = recorded["Elaine"][1]

\* C5: the reply about to be recorded is the last of at most 1 + 3 candidates
\* (the first choice and up to 3 reselections); every earlier candidate is in
\* the window; the reply recorded is in the window only when all 3
\* reselections were made and the last one collided too.
C5_ReselectUpToThree ==
  \A k \in DOMAIN stack :
    LET f == stack[k]
        window == Range(recent_replies[f.agent])
        n == Len(f.tries)
    IN /\ f.pc = "reselect" =>
            /\ n \in 1..3
            /\ \A i \in 1..n : f.tries[i] \in window
       /\ f.pc = "record" =>
            /\ n \in 1..4
            /\ f.response = f.tries[n]
            /\ \A i \in 1..(n - 1) : f.tries[i] \in window
            /\ (f.response \in window => n = 4)

\* Three reselections, all colliding: the collision is accepted.
C5_Witness ==
  /\ At("record")
  /\ Len(Top.tries) = 4
  /\ Top.response \in Range(recent_replies[Top.agent])

\* C7: the mode of a message is creative when the resonance after this
\* message's update is above 0.65, analytical when it is below 0.35, and in
\* between creative exactly when at least 4 of the 7 creative keywords occur.
C7_ModeSelection ==
  \A k \in DOMAIN stack :
    LET f == stack[k]
        overall3 == last_resonance[f.agent]
        score == Cardinality({kw \in CreativeKeywords : HasWord(f.message, kw)})
    IN f.pc \in {"reselect", "record", "persist", "return"} /\ f.mode # "none" =>
         /\ overall3 = OverallCubed(triadic[f.agent])
         /\ f.mode = IF overall3 > CreativeCube THEN "creative"
                     ELSE IF overall3 < AnalyticalCube THEN "analytical"
                     ELSE IF score >= 4 THEN "creative" ELSE "analytical"

\* The resonance above 0.65 makes a message without creative keywords creative,
\* after an earlier message was creative by its keywords inside the band.
C7_Witness ==
  /\ At("record")
  /\ Top.mode = "creative"
  /\ last_resonance[Top.agent] > CreativeCube
  /\ \A kw \in CreativeKeywords : ~HasWord(Top.message, kw)
  /\ \E i \in DOMAIN memory_db[Top.agent] :
       memory_db[Top.agent][i].input \in OpenGateMessages

InUnit(x) == x \in 0..Scale

InUnitCubed(x) == x \in 0..(Scale * Scale)

NudgingPcs == {"fast_r", "fast_w", "medium_r", "medium_w", "slow_r", "slow_w"}

UpdatingPcs ==
  {"uh_fast_w", "uh_medium_r", "uh_medium_f", "uh_medium_w", "uh_slow_r", "uh_slow_m",
   "uh_slow_w", "uh_overall_f", "uh_overall_m", "uh_overall_s"}

\* C6: in every reachable state, whatever the interleaving of the foreground
\* update_harmony with the trainer's nudges, fast, medium and slow lie in
\* [0, 1] and so does the overall resonance (as its cube), computed now or
\* kept from the last update.
C6_ResonanceInRange ==
  /\ \A a \in Agents :
       /\ InUnit(triadic[a].fast)
       /\ InUnit(triadic[a].medium)
       /\ InUnit(triadic[a].slow)
       /\ InUnitCubed(OverallCubed(triadic[a]))
       /\ InUnitCubed(last_resonance[a])
  /\ \A i \in DOMAIN stack : InUnitCubed(stack[i].overall)

\* C6 witness: the trainer has pushed fast to the ceiling (the foreground
\* alone never gets there) in the middle of a foreground update, and is in
\* the middle of its own pass.
C6_Witness ==
  /\ triadic[Trained].fast = Scale
  /\ stack # <<>> /\ Top.pc \in UpdatingPcs
  /\ \E t \in DOMAIN threads : threads[t].pc \in NudgingPcs

\* C8, as stated: whatever happens, query_ollama returns a string and does
\* not raise; a connection failure gives the "Unable to connect" text and an
\* HTTP error status a text with the status code in it.
C8_AlwaysReturnsString ==
  ollama.pc = "done" =>
    /\ ~ollama.raised
    /\ ollama.result.type = "str"
    /\ IsConnectionError(ollama.exc.kind) => ollama.result = UnableToConnect
    /\ ollama.exc.kind = "HTTPError" =>
         HasTok(ollama.result.text, ToString(ollama.exc.status))

\* What holds of C8: no exception leaves query_ollama, and the two error
\* texts are as stated.
C8_NeverRaises ==
  ollama.pc = "done" =>
    /\ ~ollama.raised
    /\ ollama.result.type \in {"str", "int"}
    /\ IsConnectionError(ollama.exc.kind) => ollama.result = UnableToConnect
    /\ ollama.exc.kind = "HTTPError" =>
         HasTok(ollama.result.text, ToString(ollama.exc.status))

\* C8 witness: a body whose "response" is a number has been returned as it is.
C8_Witness ==
  /\ ollama.pc = "done"
  /\ ~ollama.stream
  /\ ollama.exc = NoException
  /\ ollama.result.type = "int"

\* C9: at most two requests per call, the first with REQUEST_TIMEOUT; a
\* second one exactly when the first ended in a read timeout, with twice the
\* timeout; nothing after the second, however it ends.
C9_RetryOnceOnReadTimeout ==
  LET r == ollama.requests
  IN /\ Len(r) <= 2
     /\ Len(r) >= 1 => r[1] = REQUEST_TIMEOUT
     /\ Len(r) = 2 => ollama.first = "ReadTimeout" /\ r[2] = 2 * r[1]
     /\ ollama.pc = "retry" => Len(r) = 1 /\ ollama.first = "ReadTimeout"
     /\ ollama.pc \in {"json", "iter", "except", "done"} =>
          /\ Len(r) >= 1
          /\ Len(r) = 2 <=> ollama.first = "ReadTimeout"

\* C9 witness: the call has ended on a second read timeout, after two requests.
C9_Witness ==
  /\ ollama.pc = "done"
  /\ Len(ollama.requests) = 2
  /\ ollama.exc.kind = "ReadTimeout"
  /\ ollama.result = Str(<<"Ollama error:", "ReadTimeout">>)

\* The call left the lifecycle state as it found it at its check.
NoOp(k) ==
  /\ training_thread = k.before.thread
  /\ Len(threads) = k.before.created
  /\ training_stop_event = k.before.event

\* C10: with start and stop called one after another, at most one trainer
\* thread is alive in every state; start returns True exactly when no trainer
\* thread was alive at its check, and has then spawned one; otherwise it
\* returns False and changes nothing; stop with no trainer alive returns
\* False and changes nothing.
C10_AtMostOneTrainer ==
  /\ Cardinality(AliveThreads) <= 1
  /\ \A c \in Callers :
       LET k == callers[c]
       IN k.pc = "done" =>
            /\ k.op = "start" =>
                 /\ k.result = "True" <=> ~k.alive_at_check
                 /\ k.result = "False" <=> k.alive_at_check
                 /\ k.result = "True" =>
                      /\ Len(threads) = k.before.created + 1
                      /\ training_thread = Len(threads)
                      /\ AliveThreads \subseteq {training_thread}
                 /\ k.result = "False" => NoOp(k)
            /\ k.op = "stop" /\ ~k.alive_at_check => k.result = "False" /\ NoOp(k)

\* C10 witness: a start has been refused while the trainer that a stop has
\* signalled is still alive (the join timed out).
C10_Witness ==
  \E c \in Callers :
    /\ callers[c].pc = "done"
    /\ callers[c].op = "start"
    /\ callers[c].result = "False"
    /\ training_stop_event
    /\ Cardinality(AliveThreads) = 1

\* C11: the lifecycle transitions are serialized by the agent's lock, so two
\* concurrent start calls cannot both pass the "already running" check and
\* leave two trainer loops alive: at most one trainer thread is alive, and at
\* most one caller is between the check of start and the start of its thread.
C11_StartsSerialized ==
  /\ Cardinality(AliveThreads) <= 1
  /\ Cardinality({c \in Callers :
        callers[c].pc \in {"start_clear", "start_create", "start_start"}}) <= 1

\* Both callers' start calls passed the check, both returned True, and two
\* trainer loops are alive.
C11_Witness ==
  /\ Cardinality(AliveThreads) = 2
  /\ \A c \in Callers : callers[c].op = "start" /\ callers[c].result = "True"
  /\ training_lock = 0

\* A training pass of a thread is under way (lines 983-984).
PassPcs ==
  {"slice", "lock", "fast_r", "fast_w", "medium_r", "medium_w", "slow_r", "slow_w",
   "log_snippets", "log_periodic"}

ThreadAt(t, pcs) == t \in DOMAIN threads /\ threads[t].pc \in pcs

InFlight(t) == ThreadAt(t, PassPcs)

\* While the signal is set no thread begins a pass.
NoNewPass ==
  [][training_stop_event =>
       \A t \in DOMAIN threads : threads'[t].passes = threads[t].passes]_vars

\* A thread ends only at the loop condition, with the signal set, and a pass
\* under way goes on to its own end, the wait of line 988.
PassNotInterrupted ==
  [][\A t \in DOMAIN threads :
       /\ (threads'[t].pc = "dead" /\ threads[t].pc # "dead") =>
            (threads[t].pc = "loop" /\ training_stop_event)
       /\ InFlight(t) => threads'[t].pc \in PassPcs \cup {"wait"}]_vars

\* A pass under way when the signal is set is completed, and every thread
\* alive with the signal set ends.
EventuallyTerminates ==
  \A t \in 1..MaxThreads :
    /\ (training_stop_event /\ InFlight(t)) ~> ThreadAt(t, {"wait"})
    /\ (training_stop_event /\ t \in AliveThreads) ~> ThreadAt(t, {"dead"})

\* C12: once stop_periodic_training has set the stop event, the trainer loop
\* begins no new pass, a pass under way runs to its end, and the trainer thread
\* ends.
C12_CooperativeCancellation ==
  /\ NoNewPass
  /\ PassNotInterrupted
  /\ EventuallyTerminates

\* stop has set the event while a pass of the running trainer was under way,
\* its numeric updates begun, and the join has timed out.
C12_Witness ==
  /\ training_stop_event
  /\ training_thread # 0
  /\ threads[training_thread].pc \in {"fast_w", "medium_r", "medium_w", "slow_r", "slow_w"}
  /\ \E c \in Callers : callers[c].op = "stop" /\ callers[c].result = "True"

\* C13: the result of a worker whose join timed out is used in no later step:
\* it is not displayed and is in neither concluder's combined text.
C13_LateResultDiscarded ==
  \A w \in triad.timed_out :
    /\ ~HasTok(triad.shown, w)
    /\ \A b \in Agents : ~HasTok(triad.combined[b], w)

\* The Ollama worker's join timed out; its result came while Elaine was
\* concluding and is in the text given to Carrie, not in Elaine's.
C13_Witness ==
  /\ triad.pc = "done"
  /\ "ollama" \in triad.timed_out
  /\ ~HasTok(triad.shown, "ollama")
  /\ ~HasTok(triad.combined["Elaine"], "ollama")
  /\ HasTok(triad.combined["Carrie"], "ollama")

\* The reply ends with the marker followed by one suggestion of the bank.
EndsWithSuggestion(response) ==
  /\ Len(response) >= 2
  /\ response[Len(response) - 1] = SuggestionMarker
  /\ response[Len(response)] \in Suggestions

\* C14 as stated: every reply returned for a message that no special command
\* short-circuits is non-empty and ends with the marker and one suggestion.
C14_EveryReplySuggests ==
  (At("return") /\ ~ShortCircuited(Top.agent, Top.message)) =>
    Top.response # <<>> /\ EndsWithSuggestion(Top.response)

\* C14 amended: every reply returned for a message that no special command
\* short-circuits and that is not delegated is non-empty and ends with the
\* marker and one suggestion; a delegated message is answered with what the
\* other agent's callback returned, nothing appended: the not-online notice
\* when that agent is not launched.
C14_PipelineReplySuggests ==
  At("return") =>
    LET a == Top.agent
        to == DelegateTarget(a, Top.message)
    IN /\ RunsToEnd(a, Top.message) =>
            Top.response # <<>> /\ EndsWithSuggestion(Top.response)
       /\ (~ShortCircuited(a, Top.message) /\ to \in Agents \ online) =>
            Top.response \in {<<"[Carrie not online]">>, <<"[Elaine not online]">>}

\* A reply of the general pipeline has been returned: the model's text, the
\* marker and a suggestion.
C14_Witness ==
  /\ At("return")
  /\ RunsToEnd(Top.agent, Top.message)
  /\ Len(Top.response) = 3
  /\ Top.response[2] = SuggestionMarker
  /\ Top.response[3] = "What do you think about expanding this into a project?"

\* The commands a message matches, as the agent stands.
Matches(a, message) ==
  (IF IsTeam(message) THEN {"team"} ELSE {})
  \cup (IF IsLearn(message) THEN {"learn"} ELSE {})
  \cup (IF IsDefine(message) THEN {"define"} ELSE {})
  \cup (IF LearnedHit(a, message) # 0 THEN {"learned"} ELSE {})

Priority == <<"team", "learn", "define", "learned">>

\* The earliest of the matched commands in the priority order.
Earliest(matched) ==
  Priority[CHOOSE i \in DOMAIN Priority :
             Priority[i] \in matched /\ \A j \in 1..(i - 1) : Priority[j] \notin matched]

\* The reply and the side effects of one command, from the state before the
\* step to the state after it.
Answered(command, f, reply) ==
  LET a == f.agent
  IN CASE command = "team" ->
            /\ reply = <<Tag(a)>> \o GetTeamStatus
            /\ UNCHANGED << storeVars, custom_learned, definitions >>
       [] command = "learn" ->
            /\ reply[2] \in {"Learned custom response for",
                              "Please use 'learn:input=>response' format."}
            /\ UNCHANGED << memory, conversation_db, conversation_history, definitions >>
            /\ \/ /\ reply[2] = "Learned custom response for"
                  /\ Len(memory_db'[a]) = Len(memory_db[a]) + 1
                  /\ memory_db'[a][Len(memory_db'[a])].context = <<"LEARNED">>
                  /\ memory_db'[a][Len(memory_db'[a])].importance = 9
               \/ /\ reply[2] # "Learned custom response for"
                  /\ UNCHANGED << memory_db, custom_learned >>
       [] command = "define" ->
            /\ reply[2] \in {"Definition stored for", "Web definition for"}
            /\ UNCHANGED << conversation_db, conversation_history, custom_learned >>
            /\ Len(memory_db'[a]) = Len(memory_db[a]) + 1
            /\ memory_db'[a][Len(memory_db'[a])].context \in {<<"DEFINITION">>, <<"WEB_LOOKUP">>}
            /\ memory_db'[a][Len(memory_db'[a])].importance \in {7, 8}
       [] command = "learned" ->
            /\ reply = <<Tag(a)>> \o custom_learned[a][LearnedHit(a, f.message)].value
            /\ UNCHANGED << storeVars, custom_learned, definitions >>

\* C15: a message that matches one or several of the special commands is
\* answered by the earliest of them in the order team status, learn:, define,
\* learned trigger, with that command's reply and side effects alone, and
\* returns at once: no resonance update, no recent-reply recording, no turn.
C15_FixedPriority ==
  [][(At("dispatch") /\ Matches(Top.agent, Top.message) # {}) =>
       /\ Len(stack') = Len(stack)
       /\ stack'[Len(stack)].pc = "return"
       /\ Answered(Earliest(Matches(Top.agent, Top.message)), Top, stack'[Len(stack)].response)
       /\ UNCHANGED << triadic, last_resonance, recent_replies, recorded, context_memory >>]_vars

\* "define hi" has been answered as a define command (a web lookup) although
\* it contains the learned trigger "hi".
C15_Witness ==
  /\ At("return")
  /\ Top.message = <<"define", "hi">>
  /\ LearnedHit(Top.agent, Top.message) # 0
  /\ Top.response[2] = "Web definition for"

\* The datetime a stored timestamp was made from.
ParseIso(text) == Datetime(text[1], IF Len(text) = 1 THEN 0 ELSE text[2])

Earlier(d1, d2) == d1.day < d2.day \/ (d1.day = d2.day /\ d1.micro < d2.micro)

\* C16: prune_memory deletes exactly the entries of the agent that are strictly
\* older than now minus max_age_days and of importance at most the threshold,
\* returns how many it deleted (0 on an empty table), and leaves the other
\* entries, in their order, the other agent's entries, the turns and the
\* summaries as they were.
C16_PruneExactly ==
  core.op = "prune_memory" =>
    LET a == core.agent
        was == core.before
        cutoff == Datetime(core.arg.now.day - core.arg.max_age_days, core.arg.now.micro)
        kept(row) == ~(/\ Earlier(ParseIso(row.timestamp), cutoff)
                       /\ row.importance <= core.arg.importance_threshold)
    IN /\ memory_db[a] = SelectSeq(was.memory[a], kept)
       /\ core.result = Len(was.memory[a]) - Len(memory_db[a])
       /\ was.memory[a] = <<>> => core.result = 0
       /\ memory_db[Other(a)] = was.memory[Other(a)]
       /\ conversation_db = was.conversation
       /\ memory_meta = was.meta

\* Of two entries stamped at the same second, the one on the second, older
\* than the cutoff by its fraction alone, has been deleted.
C16_Witness ==
  /\ core.op = "prune_memory"
  /\ core.result = 1
  /\ core.arg.now = Datetime(3, 5) /\ core.arg.max_age_days = 2
  /\ Len(core.before.memory[core.agent]) = 2
  /\ \E i \in 1..2 : core.before.memory[core.agent][i].timestamp = <<1, 5>>
  /\ Len(memory_db[core.agent]) = 1
  /\ memory_db[core.agent][1].timestamp = <<1, 5>>

\* The five fields of an entry that have a column.
Stored(entry) ==
  [ timestamp |-> entry.timestamp, input |-> entry.input, from |-> entry.from,
    importance |-> entry.importance, context |-> entry.context ]

\* C17: after add_memory(e), get_memories returns what it returned before, in
\* the same order, followed by an entry equal to e in timestamp, input, source,
\* importance and context tags.
C17_RoundTrip ==
  /\ core.op = "add_memory" =>
       GetMemories(memory_db[core.agent])
         = Append(GetMemories(core.before.memory[core.agent]), Stored(core.arg))
  /\ (core.op = "get_memories" /\ core.follows = "add_memory") =>
       core.result = Append(GetMemories(core.before.memory[core.agent]), Stored(core.arg))

\* get_memories has returned two entries, the second the one just added, with
\* its two context tags.
C17_Witness ==
  /\ core.op = "get_memories"
  /\ core.follows = "add_memory"
  /\ Len(core.result) = 2
  /\ core.result[2].context = <<"3D_MODELING", "PROGRAMMING">>
  /\ core.result[2] = Stored(core.arg)

FoldMsg(m) == [i \in DOMAIN m |-> Fold(m[i])]

HasWildcard(query) == HasTok(query, "%") \/ HasTok(query, "_")

\* What search_memory is to return when the rows that satisfy hit are found.
Found(a, rows, hit(_)) ==
  LET found == SelectSeq(rows, hit)
  IN [i \in DOMAIN found |-> AsResult(a, found[i])]

\* C18 as stated: search_memory(q) returns exactly the agent's entries whose
\* input or serialized context tags contain q, letter case mattering.
C18_SearchCaseSensitive ==
  core.op = "search_memory" =>
    LET hit(row) == Contains(row.input, core.arg) \/ Contains(row.context, core.arg)
    IN core.result = Found(core.agent, memory_db[core.agent], hit)

\* C18 amended: search_memory(q) returns exactly the agent's entries whose
\* input or serialized context tags contain q, the ASCII letters compared
\* without regard to case, when q holds no % or _; these two are wildcards,
\* and a q that is one of them alone returns every entry.
C18_SearchLike ==
  core.op = "search_memory" =>
    LET q == core.arg
        hit(row) == \/ Contains(FoldMsg(row.input), FoldMsg(q))
                    \/ Contains(FoldMsg(row.context), FoldMsg(q))
        any(row) == TRUE
    IN /\ ~HasWildcard(q) => core.result = Found(core.agent, memory_db[core.agent], hit)
       /\ q \in {<<"%">>, <<"_">>} => core.result = Found(core.agent, memory_db[core.agent], any)

\* The search for "hi" has found "HI there", and not "hello".
C18_Witness ==
  /\ core.op = "search_memory"
  /\ core.arg = <<"hi">>
  /\ Len(memory_db[core.agent]) = 2
  /\ Len(core.result) = 1
  /\ core.result[1][2] = <<"HI", "there">>

\* The keywords that occur in a text, whatever the case of its letters, a
\* keyword inside a longer word included.
Occurring(text) ==
  {kw \in ImportanceKeywords :
     \E i \in DOMAIN text : kw = Lower(text[i]) \/ (text[i] = "helpful" /\ kw = "help")}

\* C19: the score is 5 plus 2 for each keyword that occurs, capped at 10: one
\* of 5, 7, 9 and 10, 5 when no keyword occurs and 10 from three keywords on.
C19_ImportanceScore ==
  core.op = "_calculate_importance" =>
    LET n == Cardinality(Occurring(core.arg))
    IN /\ Cardinality(ImportanceKeywords) = 10
       /\ core.result \in {5, 7, 9, 10}
       /\ core.result = 5 <=> n = 0
       /\ core.result = 7 <=> n = 1
       /\ core.result = 9 <=> n = 2
       /\ core.result = 10 <=> n >= 3

\* Three keywords, one in capitals and one inside "helpful": 5 + 6 is capped.
C19_Witness ==
  /\ core.op = "_calculate_importance"
  /\ core.arg = <<"URGENT", "helpful", "stl">>
  /\ core.result = 10

\* The learned triggers of the agent that a message contains, letter case
\* apart: their places in the order they were first learned.
TriggersIn(a, message) ==
  {i \in DOMAIN custom_learned[a] : Contains(LowerMsg(message), custom_learned[a][i].key)}

\* The step returns this reply at once and changes nothing else of the agent.
AnswersOnly(reply) ==
  /\ Len(stack') = Len(stack)
  /\ stack'[Len(stack)].pc = "return"
  /\ stack'[Len(stack)].response = reply
  /\ UNCHANGED << storeVars, custom_learned, definitions, triadic, last_resonance,
                  recent_replies, recorded, use_ollama, online >>

\* A well-formed learn: message leaves the trigger, lower-cased, with the new
\* reply, once, at the place it had if it was known, else last; the other
\* triggers keep their replies and places.
Registers(a, trigger, reply) ==
  LET was == custom_learned[a]
      now == custom_learned'[a]
      known == \E i \in DOMAIN was : was[i].key = trigger
  IN /\ Len(now) = IF known THEN Len(was) ELSE Len(was) + 1
     /\ \A i \in DOMAIN was : was[i].key # trigger => now[i] = was[i]
     /\ \A i \in DOMAIN now :
          (i \notin DOMAIN was \/ was[i].key = trigger) =>
            now[i] = [key |-> trigger, value |-> reply]

\* C20 as stated: a message that is no command and contains a learned trigger
\* is answered with the reply learned for that trigger, whichever trigger of
\* those it contains is meant.
C20_EveryTriggerAnswers ==
  [][(At("dispatch") /\ ~IsCommand(Top.message)) =>
       \A i \in TriggersIn(Top.agent, Top.message) :
         AnswersOnly(<<Tag(Top.agent)>> \o custom_learned[Top.agent][i].value)]_vars

\* C20 amended: a message that is no command and contains learned triggers is
\* answered, at once, with the reply last learned for the one of them that was
\* first learned earliest; a well-formed learn: message registers its trigger
\* with its reply; a learn: message without "=>" registers nothing and changes
\* no state of the agent.
C20_FirstTriggerAnswers ==
  [][At("dispatch") =>
       LET a == Top.agent
           m == Top.message
           hits == TriggersIn(a, m)
           first == CHOOSE i \in hits : \A j \in hits : i <= j
       IN /\ (~IsCommand(m) /\ hits # {}) =>
               AnswersOnly(<<Tag(a)>> \o custom_learned[a][first].value)
          /\ (IsLearn(m) /\ HasTok(Tail(m), "=>")) =>
               Registers(a, LowerMsg(Before(Tail(m), "=>")), After(Tail(m), "=>"))
          /\ (IsLearn(m) /\ ~HasTok(Tail(m), "=>")) =>
               AnswersOnly(<<Tag(a), "Please use 'learn:input=>response' format.">>)]_vars

\* "HI hello" has been answered with the reply learned for "hi", learned before
\* "hello", both being in the message.
C20_Witness ==
  /\ At("return")
  /\ Top.message = <<"HI", "hello">>
  /\ Len(custom_learned[Top.agent]) = 2
  /\ custom_learned[Top.agent][1] = [key |-> <<"hi">>, value |-> <<"yo">>]
  /\ custom_learned[Top.agent][2].key = <<"hello">>
  /\ Top.response = <<Tag(Top.agent), "yo">>

\* The reply sources that match a message, in the order they are consulted.
SourcesMatching(a, message) ==
  (IF DefinitionResponse(a, message) # <<>> THEN {1} ELSE {})
    \cup (IF PluginResponse(message) # <<>> THEN {2} ELSE {})
    \cup (IF TemplateHit(message) # 0 THEN {3} ELSE {})

\* The reply of source `stage` to the message of frame f.
SourceReplies(f, stage) ==
  CASE stage = 1 -> {DefinitionResponse(f.agent, f.message)}
    [] stage = 2 -> {PluginResponse(f.message)}
    [] stage = 3 -> {TemplateResponse(f.message, web) : web \in WebResults}

\* C21: in the general pipeline the reply that is recorded (before the
\* suggestion is appended) is the reply of the earliest source that matches
\* the message, in the order definitions, plugins, templates; a later stage
\* never replaces it.
C21_EarliestSourceAnswers ==
  \A i \in DOMAIN stack :
    LET f == stack[i]
        matching == SourcesMatching(f.agent, f.message)
    IN (f.pc = "record" /\ matching # {})
         => f.response \in SourceReplies(f, CHOOSE s \in matching :
                                                 \A t \in matching : s <= t)

\* A definition and a plugin both match and the plugin's reply is the one
\* about to be recorded.
C21_Witness ==
  /\ At("record")
  /\ Top.message = <<"fuzzy", "hello">>
  /\ DefinitionResponse(Top.agent, Top.message) # <<>>
  /\ Top.response = PluginResponse(Top.message)

\* The foreground call moves from pc `from` to pc `to` in this step.
ForegroundMoves(from, to) ==
  /\ At(from)
  /\ stack' # <<>>
  /\ stack'[Len(stack')].pc = to

\* Trainer thread t moves from pc `from` to one of `to` in this step.
TrainerMoves(t, from, to) ==
  /\ t \in DOMAIN threads
  /\ threads[t].pc = from
  /\ threads'[t].pc \in to

AfterSlowWrite == {"log_snippets", "fast_r"}

\* C22: a foreground update_harmony and a trainer nudge on the same agent
\* are not mutually exclusive, and the last write wins for each field on its
\* own: every write of fast, medium or slow, by either thread, stores the
\* value computed from what that thread had read, whatever the other thread
\* has written to the field since, and leaves the other two fields alone.
C22_LastWriteWins ==
  [][ /\ ForegroundMoves("uh_fast_w", "uh_medium_r") =>
           triadic'[Top.agent] =
             [Mine EXCEPT !.fast = FastUpdate(Top.acc, InputResonance(Top.message))]
      /\ ForegroundMoves("uh_medium_w", "uh_slow_r") =>
           triadic'[Top.agent] = [Mine EXCEPT !.medium = Top.acc]
      /\ ForegroundMoves("uh_slow_w", "uh_overall_f") =>
           triadic'[Top.agent] = [Mine EXCEPT !.slow = Top.acc]
      /\ \A t \in 1..MaxThreads :
           /\ TrainerMoves(t, "fast_w", {"medium_r"}) =>
                triadic'[Trained] =
                  [Its EXCEPT !.fast = Nudge(threads[t].acc, Head(threads[t].snippets), 1)]
           /\ TrainerMoves(t, "medium_w", {"slow_r"}) =>
                triadic'[Trained] =
                  [Its EXCEPT !.medium = Nudge(threads[t].acc, Head(threads[t].snippets), 2)]
           /\ TrainerMoves(t, "slow_w", AfterSlowWrite) =>
                triadic'[Trained] =
                  [Its EXCEPT !.slow = Nudge(threads[t].acc, Head(threads[t].snippets), 4)]
    ]_vars

\* The trainer holds its lock and has read fast, the foreground call on the
\* same agent has read fast too, and fast has been written since the
\* foreground read it: the write the foreground is about to make loses that
\* update.
C22_Witness ==
  /\ At("uh_fast_w")
  /\ Top.agent = Trained
  /\ Top.acc # Mine.fast
  /\ \E t \in DOMAIN threads :
       /\ training_lock = t
       /\ threads[t].pc \in {"medium_r", "medium_w", "slow_r", "slow_w"}

\* C23: the in-memory mirrors of memory and conversation history are
\* modified from the foreground thread only: no step of the conversation
\* loop's calls and no step of the search-and-learn worker changes them.
C23_MirrorsForegroundOnly ==
  [][ (memory' # memory \/ conversation_history' # conversation_history)
        => (~AutoInCall /\ learner' = learner) ]_vars

\* The conversation_loop thread is inside Elaine's process_input and the
\* entry of its message is the last of Elaine's memory mirror.
C23_Witness ==
  /\ auto.pc = "in_elaine"
  /\ At("resonance")
  /\ memory["Elaine"] # <<>>
  /\ memory["Elaine"][Len(memory["Elaine"])].timestamp = Top.timestamp
  /\ memory["Elaine"][Len(memory["Elaine"])].from = "Carrie"

\* C24: summarize_recent_memories(count) on an empty memory table returns
\* None and stores no summary; on a table of n > 0 rows it stores exactly one
\* summary, made from the min(count, n) most recent rows rendered oldest
\* first, returns the stored text, and leaves the memory and conversation
\* tables as they were.
C24_Summarize ==
  core.op = "summarize_recent_memories" =>
    LET was == core.before
        a == core.agent
        rows == was.memory[a]
        n == Len(rows)
        k == Min(core.arg.count, n)
    IN /\ memory_db = was.memory
       /\ conversation_db = was.conversation
       /\ \A b \in Agents \ {a} : memory_meta[b] = was.meta[b]
       /\ n = 0 => (core.result = NoResult /\ memory_meta[a] = was.meta[a])
       /\ n > 0 =>
            /\ Len(memory_meta[a]) = Len(was.meta[a]) + 1
            /\ SubSeq(memory_meta[a], 1, Len(was.meta[a])) = was.meta[a]
            /\ core.result = Str(memory_meta[a][Len(memory_meta[a])].summary)
            /\ core.arg.prompt.items = [i \in 1..k |-> Item(rows[n - k + i])]

\* Two rows are in the table, the older first, and both are in the summary
\* stored, which the backend's failure text makes up.
C24_Witness ==
  /\ core.op = "summarize_recent_memories"
  /\ Len(core.before.memory["Elaine"]) = MaxRows
  /\ core.arg.count = MaxRows
  /\ Len(core.arg.prompt.items) = MaxRows
  /\ core.arg.prompt.items[1].ts # core.arg.prompt.items[MaxRows].ts
  /\ core.result = Str(SummaryText("raises"))
  /\ Len(memory_meta["Elaine"]) = 1

\* This step is a run of sync_brains.
SyncStep == core' # core /\ core'.op = "sync_brains"

\* What belongs to agent b: its tables, its mirrors, its resonance state and
\* its recent-reply window.
Partition(b) ==
  << memory_db[b], conversation_db[b], memory_meta[b], memory[b], conversation_history[b],
     triadic[b], last_resonance[b], recent_replies[b] >>

\* The call in progress was made on agent a with a message that a does not
\* delegate.
UndelegatedCallOn(a) ==
  /\ stack # <<>>
  /\ stack[1].agent = a
  /\ DelegateTarget(a, stack[1].message) = "none"

\* C25: the stores are partitioned by agent: no step of process_input on one
\* agent, for a message that triggers no delegation, changes another agent's
\* memory, conversation or summary table, its mirrors, its resonance state or
\* its recent-reply window; what belongs to an agent changes only in a call
\* on that agent, made from outside or delegated to it, or in sync_brains.
C25_Partitioned ==
  [][ \A a \in Agents :
        /\ UndelegatedCallOn(a) => Partition(Other(a))' = Partition(Other(a))
        /\ Partition(a)' # Partition(a) =>
             \/ SyncStep
             \/ stack # <<>> /\ Top.agent = a
    ]_vars

\* Both agents have answered a message of their own, Elaine after Carrie,
\* and each holds its own entry and turn and nothing of the other's.
C25_Witness ==
  /\ stack = <<>>
  /\ core.op = "none"
  /\ \A a \in Agents :
       /\ Len(memory_db[a]) = 1 /\ Len(conversation_db[a]) = 1
       /\ Len(recent_replies[a]) = 1
       /\ memory_db[a][1].timestamp = conversation_db[a][1].timestamp
  /\ conversation_db["Elaine"][1].timestamp > conversation_db["Carrie"][1].timestamp

\* Entry e is in table or list t.
Holds(t, e) == \E i \in DOMAIN t : t[i] = e

\* C26: sync_brains duplicates and never moves: after it, every entry of
\* importance >= 7 that was in either agent's memory list is in both agents'
\* tables, each table still begins with the rows it had, and what was added
\* to a table is exactly the other list's entries of importance >= 7, none
\* of lower importance.
C26_SyncDuplicates ==
  [][ SyncStep =>
        \A a \in Agents :
          LET b == Other(a)
              added == SubSeq(memory_db'[a], Len(memory_db[a]) + 1, Len(memory_db'[a]))
          IN /\ Len(memory_db'[a]) >= Len(memory_db[a])
             /\ SubSeq(memory_db'[a], 1, Len(memory_db[a])) = memory_db[a]
             /\ \A i \in DOMAIN memory[a] :
                  memory[a][i].importance >= 7 =>
                    Holds(memory_db'[a], memory[a][i]) /\ Holds(memory_db'[b], memory[a][i])
             /\ \A i \in DOMAIN added :
                  added[i].importance >= 7 /\ Holds(memory[b], added[i])
    ]_vars

\* A sync has copied Elaine's important entry to Carrie's table, which
\* holds nothing else, and Elaine's table still holds it, next to a plain
\* entry that was not copied.
C26_Witness ==
  /\ core.op = "sync_brains"
  /\ Len(memory_db["Elaine"]) = 2
  /\ Len(memory_db["Carrie"]) = 1
  /\ memory_db["Carrie"][1].importance >= 7
  /\ Holds(memory_db["Elaine"], memory_db["Carrie"][1])
  /\ \E i \in DOMAIN memory_db["Elaine"] : memory_db["Elaine"][i].importance < 7

\* 0.5 ** 3, in units of Scale * Scale.
HalfCubed == OverallCubed([fast |-> Half, medium |-> Half, slow |-> Half])

\* C27: in every reachable state, whatever the messages processed and the
\* interleaving with the trainer's passes, fast, medium and slow are each
\* >= 0.5, so the overall resonance is never below 0.5 and never below the
\* 0.35 under which the mode is forced to analytical.
C27_AtLeastHalf ==
  /\ \A a \in Agents :
       /\ triadic[a].fast >= Half
       /\ triadic[a].medium >= Half
       /\ triadic[a].slow >= Half
       /\ last_resonance[a] >= HalfCubed
  /\ \A i \in DOMAIN stack :
       stack[i].pc \in {"respond", "return"} =>
         /\ stack[i].overall >= HalfCubed
         /\ ~(stack[i].overall < AnalyticalCube)

\* A plain message (importance 5) has pulled fast down, not below 0.5,
\* while the trainer, which had raised it, is in the middle of a pass.
C27_Witness ==
  /\ At("respond")
  /\ Top.message = <<"delegate", "carrie", "hello">>
  /\ InputResonance(Top.message) = Half
  /\ Mine.fast > Half
  /\ \E t \in DOMAIN threads : threads[t].pc \in NudgingPcs

\* C28: cross-agent delegation terminates: a command delegated by one agent
\* is processed by the other without being delegated back, so the stack of
\* calls holds the delegating call and the delegated one at most, and no call
\* ends in an exception instead of returning.
C28_OneHop ==
  /\ Len(stack) <= 2
  /\ \A i \in DOMAIN stack :
       /\ stack[i].pc # "raised"
       /\ i >= 2 => DelegateTarget(stack[i].agent, stack[i].message) = "none"

\* The command Elaine delegated to Carrie is the whole message, which Carrie
\* delegates back; the recursion has reached the limit and the call made
\* from outside is ending with RecursionError.
C28_Witness ==
  /\ Len(stack) = 1
  /\ At("raised")
  /\ Top.message = <<"Delegate", "carrie", "elaine", "hello">>
  /\ \A a \in Agents : memory_db[a] # <<>>

\* C29: whenever no call of process_input is in progress, each agent's
\* in-memory list of memory entries holds exactly the entries of its memory
\* table, in the same order.
C29_MirrorEqualsStore ==
  stack = <<>> => \A a \in Agents : memory[a] = memory_db[a]

\* A reply has been learned: the entry of the learn command is in Elaine's
\* table and her in-memory list is empty.
C29_Witness ==
  /\ stack = <<>>
  /\ memory["Elaine"] = <<>>
  /\ Len(memory_db["Elaine"]) = 1
  /\ memory_db["Elaine"][1].context = <<"LEARNED">>
  /\ custom_learned["Elaine"] # <<>>

\* C30: whenever watching is enabled for an agent, its watcher thread is
\* running and monitors the agent's currently selected watched path.
C30_WatchesSelectedPath ==
  \A a \in Agents :
    watch[a].watch_enabled =>
      /\ WatcherAlive(watch[a])
      /\ watch[a].threads[watch[a].watch_thread].project_path = watch[a].watched_path

\* Watching was toggled off and on again with another folder while the
\* first watcher slept: no second thread was created, and the first one is
\* walking the folder it was started with.
C30_Witness ==
  LET w == watch["Elaine"]
  IN /\ w.watch_enabled
     /\ w.watched_path = "folder B"
     /\ Len(w.threads) = 1
     /\ w.threads[1].pc = "walk"
     /\ w.threads[1].project_path = "folder A"

====
